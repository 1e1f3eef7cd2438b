--------------------------------- MODULE Zclaw ---------------------------------
(***************************************************************************)
(* The storage codec of storage/zclaw.py: the most profitable substrings   *)
(* of the data become a dictionary, their occurrences two-byte references, *)
(* and the decoder puts them back and checks length and digest.  The       *)
(* DEFLATE pass around it is a library's exact inverse pair and is left    *)
(* out; a digest is modelled as the data itself (no collisions).           *)
(*                                                                         *)
(* The byte size is a constant, so that small data reach its limits: the   *)
(* code has 256, the escape byte 0xFF and 254 dictionary entries.          *)
(***************************************************************************)
EXTENDS Selections, SequencesExt

CONSTANTS
  ByteSize,     \* 256 in the code
  MinNgram,     \* MIN_NGRAM
  GramLengths   \* the lengths tried: 48, 32, ..., 4, 3

ASSUME ZclawAssumption ==
  /\ ByteSize \in Nat /\ ByteSize >= 4 /\ ByteSize % 2 = 0
  /\ MinNgram \in Nat \ {0}
  /\ GramLengths \subseteq Nat \ {0} /\ IsFiniteSet(GramLengths)

Byte == 0 .. ByteSize - 1
Escape == ByteSize - 1

\* Mutant: one reference more than a byte holds.
MaxDictEntries_TooMany == ByteSize

\* MAX_DICT_ENTRIES: 0 is kept for the escape byte itself.
MaxDictEntries == ByteSize - 2

\* data[i : i + n], which Python cuts at the end of the data.
Slice(data, i, n) ==
  SubSeq(data, i, IF i + n - 1 <= Len(data) THEN i + n - 1 ELSE Len(data))

Within(gram, other) ==
  \E i \in 1 .. Len(other) - Len(gram) + 1 : Slice(other, i, Len(gram)) = gram

\* freq counts overlapping occurrences too.
Savings(data, gram) ==
  LET freq == Cardinality({i \in 1 .. Len(data) - Len(gram) + 1 :
                             Slice(data, i, Len(gram)) = gram})
  IN  (freq - 1) * Len(gram) - freq * 2

\* The substrings worth an entry, each where it first occurs.
Candidates(data) ==
  LET new == {p \in GramLengths \X (1 .. Len(data)) :
                /\ p[2] + p[1] - 1 <= Len(data)
                /\ \A j \in 1 .. p[2] - 1 : Slice(data, j, p[1]) # Slice(data, p[2], p[1])}
      row(at, gram) == [gram |-> gram, at |-> at, savings |-> Savings(data, gram)]
  IN  {r \in {row(p[2], Slice(data, p[2], p[1])) : p \in new} : r.savings > 0}

\* scored.sort: the most profitable first, the longest of these, in the order counted.
Better(a, b) ==
  \/ a.savings > b.savings
  \/ a.savings = b.savings /\ Len(a.gram) > Len(b.gram)
  \/ a.savings = b.savings /\ Len(a.gram) = Len(b.gram) /\ a.at < b.at

\* chosen.sort(key=len, reverse=True), which is stable.
Longer(a, b) ==
  \/ Len(a.gram) > Len(b.gram)
  \/ Len(a.gram) = Len(b.gram) /\ Better(a, b)

\* What is chosen of the first n: no entry inside another, and no more than fit.
Chosen(scored) ==
  LET chosen[n \in 0 .. Len(scored)] ==
        IF n = 0 THEN {}
        ELSE IF \/ Cardinality(chosen[n - 1]) >= MaxDictEntries
                \/ \E r \in chosen[n - 1] : \/ Within(scored[n].gram, r.gram)
                                            \/ Within(r.gram, scored[n].gram)
        THEN chosen[n - 1] ELSE chosen[n - 1] \cup {scored[n]}
  IN  chosen[Len(scored)]

\* _candidate_ngrams: the longest entry first.
Dictionary(data) ==
  LET rows == Candidates(data)
      chosen == Chosen(Sorted(rows, {p \in rows \X rows : Better(p[1], p[2])}))
      entries == Sorted(chosen, {p \in chosen \X chosen : Longer(p[1], p[2])})
  IN  IF Len(data) < MinNgram * 2 THEN <<>>
      ELSE [k \in DOMAIN entries |-> entries[k].gram]

------------------------------------------------------------------------------
\* _substitute: the first entry that matches becomes escape and index, the escape
\* byte itself escape and 0.
Substitute(data, dictionary) ==
  LET hits(i) == {k \in DOMAIN dictionary :
                    Slice(data, i, Len(dictionary[k])) = dictionary[k]}
      rest[i \in 1 .. Len(data) + 1] ==
        IF i > Len(data) THEN <<>>
        ELSE IF data[i] = Escape THEN <<Escape, 0>> \o rest[i + 1]
        ELSE IF hits(i) = {} THEN <<data[i]>> \o rest[i + 1]
        ELSE LET k == CHOOSE k \in hits(i) : \A j \in hits(i) : k <= j
             IN  <<Escape, k>> \o rest[i + Len(dictionary[k])]
  IN  rest[1]

\* What IndexError and CodecIntegrityError stand for.
Raised == <<-1>>

\* _desubstitute.
Desubstitute(body, dictionary) ==
  LET rest[i \in 1 .. Len(body) + 2] ==
        IF i > Len(body) THEN <<>>
        ELSE LET after == rest[i + 1]
                 after2 == rest[i + 2]
             IN  IF body[i] # Escape
                 THEN IF after = Raised THEN Raised ELSE <<body[i]>> \o after
                 ELSE IF \/ i = Len(body)
                         \/ body[i + 1] > Len(dictionary) \/ after2 = Raised
                 THEN Raised
                 ELSE IF body[i + 1] = 0 THEN <<Escape>> \o after2
                 ELSE dictionary[body[i + 1]] \o after2
  IN  rest[1]

\* _write_varint: base ByteSize / 2, the lowest digit first, all but the last one
\* marked.
Varint(value) ==
  LET half == ByteSize \div 2
      write[v \in 0 .. value] ==
        IF v < half THEN <<v>> ELSE <<half + (v % half)>> \o write[v \div half]
  IN  write[value]

\* _read_varint: the value and the place after it; place 0 stands for a read past
\* the end.
ReadVarint(buffer, start) ==
  LET half == ByteSize \div 2
      read[i \in 1 .. Len(buffer) + 1] ==
        IF i > Len(buffer) THEN [value |-> 0, next |-> 0]
        ELSE IF buffer[i] < half THEN [value |-> buffer[i], next |-> i + 1]
        ELSE LET high == read[i + 1]
             IN  [high EXCEPT !.value = buffer[i] - half + half * high.value]
  IN  read[start]

\* _pack_dictionary followed by the body.
Pack(dictionary, body) ==
  FlattenSeq(<<Varint(Len(dictionary))>>
             \o [k \in DOMAIN dictionary |-> Varint(Len(dictionary[k])) \o dictionary[k]])
  \o body

\* _unpack_dictionary: n entries from place i on; the slices of Python end silently
\* where the buffer ends.
Entries(buffer, start, count) ==
  LET read[n \in 0 .. count] ==
        IF n = 0 THEN [next |-> start, entries |-> <<>>]
        ELSE LET before == read[n - 1]
                 length == ReadVarint(buffer, before.next)
             IN  IF \/ before.next \notin DOMAIN buffer \/ length.next = 0
                 THEN [next |-> 0, entries |-> <<>>]
                 ELSE [next |-> length.next + length.value,
                       entries |-> Append(before.entries,
                                     Slice(buffer, length.next, length.value))]
  IN  read[count]

\* encode: what is deflated, with the length and the digest of the header.
Encode(data) ==
  [length |-> Len(data), digest |-> data,
   packed |-> Pack(Dictionary(data), Substitute(data, Dictionary(data)))]

\* decode: raises, or returns what was encoded.
Decode(blob) ==
  LET count == ReadVarint(blob.packed, 1)
      dictionary == Entries(blob.packed, count.next, count.value)
      data == IF count.next = 0 \/ dictionary.next = 0 THEN Raised
              ELSE Desubstitute(Slice(blob.packed, dictionary.next, Len(blob.packed)),
                                dictionary.entries)
  IN  IF Len(data) # blob.length \/ data # blob.digest THEN Raised ELSE data
==============================================================================
