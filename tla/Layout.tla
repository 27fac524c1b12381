------------------------------- MODULE Layout -------------------------------
(***************************************************************************)
(* The instructions that the decoders of the log packets consist of.  A    *)
(* layout is a sequence of them; LogPacketDecoder executes it.             *)
(***************************************************************************)
EXTENDS Naturals, Integers, Sequences, Functions

(***************************************************************************)
(* _decode_by_fmt with a table: the next bytes hold these fields.  fields  *)
(* are <<name, bytes>> pairs, of those fields only that the decoder comes  *)
(* back to; the others count in bytes alone.  A PLACEHOLDER takes no       *)
(* bytes: the decoder is to give it some bits of another field.            *)
(***************************************************************************)
Fmt(bytes, fields, placeholders) ==
    [op |-> "fmt", bytes |-> bytes, fields |-> fields, placeholders |-> placeholders]

\* offset += bytes
Skip(bytes) == Fmt(bytes, <<>>, {})

\* _search_result_int: fields that are read into a variable
Reads(fields) == [op |-> "reads", fields |-> fields]

(***************************************************************************)
(* _replace_result_int(field, (word >> shift) & mask of width bits), for   *)
(* each part <<field, shift, width>> of each word.  A word that was not    *)
(* read before is read first.  A field with parts in several words is      *)
(* composed of them.                                                       *)
(***************************************************************************)
Split(words)      == [op |-> "split", words |-> words]
Word(word, parts) == [word |-> word, parts |-> parts]

\* The width of a part that is shifted and not masked: all bits of its word
\* above the shift.  Multiplied is that of one that is multiplied where others
\* are masked: it depends on the same bits, and gives none of them as it is.
Above      == 99
Multiplied == 98

\* A part with a mask that has holes is several.  One that lacks the lowest bits
\* has a hole there: its first part is of no bits.

\* _replace_result with a value computed from what was read
Sets(fields) == [op |-> "sets", fields |-> fields]

\* _map_result_field_to_name: from here on the field is a string
Names(fields) == [op |-> "names", fields |-> fields]

\* offset += a number of bytes that the packet says; no list with free slots
\* around it has one
PduBytes == Skip(0)

\* A loop that fills a list of its own in each iteration and appends it: as
\* often as a variable of the code or the bytes left say, as the field says
\* (any number: fields have no values here), n times, and once
Repeat(body)         == [op |-> "loop", exactly |-> {}, body |-> body]
ForEach(field, body) == Repeat(body)
Times(n, body)       == [op |-> "loop", exactly |-> {n}, body |-> body]
Sublist(body)        == Times(1, body)

\* The parts of a Split, each with its word
Parts(item) ==
    UNION {{<<w.word, p[1], p[2], p[3]>> : p \in {w.parts[i] : i \in DOMAIN w.parts}} :
           w \in {item.words[i] : i \in DOMAIN item.words}}

SplitWordsOf(item) == {item.words[i].word : i \in DOMAIN item.words}

SplitFields(item) == {p[2] : p \in Parts(item)}

\* Fields that a layout sets in its own list, whichever branches it takes
Filled(layout) ==
    UNION {CASE layout[i].op = "split"  -> SplitFields(layout[i])
             [] layout[i].op = "sets"   -> layout[i].fields
             [] layout[i].op = "either" -> UNION Range(layout[i].fills)
             [] OTHER -> {} :
           i \in DOMAIN layout}

\* if and switch over values of the packet; each alternative is a layout, of
\* which the instruction also says which fields it sets
Either(alternatives) ==
    [op |-> "either", alternatives |-> alternatives,
     fills |-> [i \in DOMAIN alternatives |-> Filled(alternatives[i])]]

(***************************************************************************)
(* After a loop of n iterations, the offset is moved by missing[n]: the    *)
(* packet has room for a fixed number of slots.                            *)
(***************************************************************************)
FreeSlotsMutant(slots, bytes) == [n \in 0..slots |-> (n - slots) * bytes]
SecondSlotMutant(bytes)       == [n \in 0..2 |-> bytes]

Pad(missing)            == [op |-> "pad", missing |-> missing]
FreeSlots(slots, bytes) == [n \in 0..slots |-> (slots - n) * bytes]
ArraySlots(bytes)       == FreeSlots(20, bytes)     \* 20: the field "Array size"
SecondSlot(bytes)       == [n \in 0..2 |-> IF n = 1 THEN bytes ELSE 0]

\* The list is a subpacket and the field says how long it is, and
\* offset += size - (offset - start)
Sized(field) == [op |-> "sized", field |-> field]
Realign      == [op |-> "realign"]

Ops == {"fmt", "reads", "split", "sets", "names", "loop", "either", "pad", "sized", "realign"}

=============================================================================
