-------------------------- MODULE LogPacketDecoder --------------------------
(***************************************************************************)
(* Decoding the payload of a log packet (log_packet.cpp and the header     *)
(* files of the packet types).  The result is a list of fields: a table    *)
(* (Fmt) says which fields the next bytes hold, _decode_by_fmt appends     *)
(* them, and the decoder of the type then looks fields up by their name,   *)
(* replaces them by some of their bits, turns numbers into names, opens a  *)
(* list of its own for each record, and moves the offset.                  *)
(*                                                                         *)
(* A decoder is a sequence of such instructions, its layout.  This module  *)
(* executes any layout; the modules named ...Layouts hold those of the     *)
(* code.  Values are left out: what matters is which fields a list has,    *)
(* how many bits of the packet each holds, and whether it is a number.     *)
(*                                                                         *)
(* There is no action for a lookup that fails: the code would use a NULL   *)
(* pointer.  So a decoder that is stuck has crashed.                       *)
(***************************************************************************)
EXTENDS Layout, FiniteSetsExt, SequencesExt, TLC

CONSTANTS
    Layouts,        \* name of a decoder and a version -> its layout
    NeverFilled,    \* <<decoder, placeholder>> that the code leaves at zero
    SameBits,       \* <<decoder, {field, field}>> that the code gives the same bits
    MaxCount        \* bound: records, cells, streams ... of a list

ASSUME LogPacketDecoderAssumption == MaxCount \in Nat

\* The width of a field is the number of its bits, or one of these
Placeholder == 0        \* no byte and no bit has filled it
Text        == -1       \* it is no number any more
Computed    == 32       \* a number that is computed is an int

VARIABLES
    decoder,    \* the name of the layout that is executed
    stack       \* the lists being filled, each inside the one before it, and
                \* where the code is in each

decoderVars == <<decoder, stack>>

(***************************************************************************)
(* A list being filled, with the variables of the code that fill it:       *)
(*   todo      what is left of its layout                                  *)
(*   width     field -> its width                                          *)
(*   words     words read into a variable -> their width at that time      *)
(*   taken     <<word, field, shift, width>>: the bits fields were given   *)
(*   spared    fields that a branch not taken would have set               *)
(*   sized     it is a subpacket, which says how long it is                *)
(*   atEnd     the offset was put to where the subpacket ends              *)
(***************************************************************************)
Opened(layout) ==
    [todo |-> layout, width |-> <<>>, words |-> <<>>, taken |-> {}, spared |-> {},
     sized |-> FALSE, atEnd |-> FALSE]

(***************************************************************************)
(* What differs from iteration to iteration and from packet to packet:     *)
(*   bytes     how far the offset is behind the start of the list          *)
(*   left      iterations that the loop at the head of todo has left, or   *)
(*             NotBegun                                                    *)
(*   count     iterations of the last loop                                 *)
(*   slot      bytes that the last iteration took                          *)
(***************************************************************************)
NotBegun == -1

Started(layout) ==
    [list |-> Opened(layout), bytes |-> 0, left |-> NotBegun, count |-> 0, slot |-> 0]

DecoderInit ==
    /\ decoder \in DOMAIN Layouts
    /\ stack = <<Started(Layouts[decoder])>>

DecoderTypeOK ==
    /\ decoder \in DOMAIN Layouts
    /\ Len(stack) > 0
    /\ \A i \in DOMAIN stack :
          LET list == stack[i].list
          IN  /\ \A k \in DOMAIN list.todo : list.todo[k].op \in Ops
              /\ \A f \in DOMAIN list.width : list.width[f] \in Text..64
              /\ stack[i].bytes \in Nat /\ stack[i].slot \in Nat
              /\ stack[i].left \in NotBegun..MaxCount /\ stack[i].count \in 0..MaxCount

-----------------------------------------------------------------------------
(* What an instruction makes of the list.  The item is the next one.       *)

ItemOf(list)     == Head(list.todo)
IsNext(list, op) == list.todo # <<>> /\ ItemOf(list).op = op
Past(list)       == [list EXCEPT !.todo = Tail(@)]

IsNumber(list, f)   == f \in DOMAIN list.width /\ list.width[f] # Text
AreNumbers(list, S) == \A f \in S : IsNumber(list, f)
AreFields(list, S)  == S \subseteq DOMAIN list.width
Constant(S, value)  == [f \in S |-> value]

\* A word was read: what it held before is of no interest any more
ReadInto(list, fields) ==
    [list EXCEPT !.words = [f \in fields |-> list.width[f]] @@ @,
                 !.taken = {t \in @ : t[1] \notin fields}]

\* A name appended twice is found where it stands first
FieldsOf(fmt) ==
    [f \in {p[1] : p \in {fmt.fields[i] : i \in DOMAIN fmt.fields}} |->
        8 * fmt.fields[Min({i \in DOMAIN fmt.fields : fmt.fields[i][1] = f})][2]]
    @@ Constant(fmt.placeholders, Placeholder)

ByFmt(list)    == [Past(list) EXCEPT !.width = @ @@ FieldsOf(ItemOf(list))]
Searched(list) == ReadInto(Past(list), ItemOf(list).fields)
WithAll(list, value) ==
    [Past(list) EXCEPT !.width = Constant(ItemOf(list).fields, value) @@ @]

\* How wide the words are that parts are taken from
WidthOf(list, w) == IF w \in DOMAIN list.words THEN list.words[w] ELSE list.width[w]
Pieces(list) ==
    {<<p[1], p[2], p[3],
       IF p[4] \in {Above, Multiplied} THEN WidthOf(list, p[1]) - p[3] ELSE p[4]>> :
        p \in Parts(ItemOf(list))}

NewWords(list) == SplitWordsOf(ItemOf(list)) \ DOMAIN list.words
Divided(list) ==
    LET bits(f) == MapThenSumSet(LAMBDA p : p[4], {p \in Pieces(list) : p[2] = f})
    IN  [ReadInto(Past(list), NewWords(list)) EXCEPT
            !.width = [f \in SplitFields(ItemOf(list)) |-> bits(f)] @@ @,
            !.taken = @ \cup Pieces(list)]

\* The i-th alternative, with fields that only others would have set
Taking(list, i) ==
    LET item == ItemOf(list)
    IN  [list EXCEPT !.todo   = item.alternatives[i] \o Tail(@),
                     !.spared = @ \cup (UNION Range(item.fills) \ item.fills[i])]

-----------------------------------------------------------------------------
Top  == stack[Len(stack)]
List == Top.list
NextItem == ItemOf(List)

\* The innermost list becomes list
Becomes(list) ==
    /\ stack' = [stack EXCEPT ![Len(stack)] = [Top EXCEPT !.list = list]]
    /\ UNCHANGED decoder

\* ... and the offset is moved
BecomesAndMoves(list, bytes) ==
    /\ stack' = [stack EXCEPT ![Len(stack)] =
                    [Top EXCEPT !.list = list, !.bytes = @ + bytes]]
    /\ UNCHANGED decoder

DecodeByFmt ==
    /\ IsNext(List, "fmt")
    /\ BecomesAndMoves(ByFmt(List), NextItem.bytes)

SearchResult ==
    /\ IsNext(List, "reads") /\ AreNumbers(List, NextItem.fields)
    /\ Becomes(Searched(List))

SplitWords ==
    /\ IsNext(List, "split")
    /\ AreNumbers(List, NewWords(List)) /\ AreFields(List, SplitFields(NextItem))
    /\ Becomes(Divided(List))

ReplaceResult ==
    /\ IsNext(List, "sets") /\ AreFields(List, NextItem.fields)
    /\ Becomes(WithAll(List, Computed))

MapToName ==
    /\ IsNext(List, "names") /\ AreNumbers(List, NextItem.fields)
    /\ Becomes(WithAll(List, Text))

-----------------------------------------------------------------------------
(* Control *)

Branch ==
    /\ IsNext(List, "either")
    /\ \E i \in DOMAIN NextItem.alternatives : Becomes(Taking(List, i))

\* How often a loop may be repeated
Counts == IF NextItem.exactly = {} THEN 0..MaxCount
          ELSE {Min({n, MaxCount}) : n \in NextItem.exactly}

BeginLoop ==
    /\ IsNext(List, "loop") /\ Top.left = NotBegun
    /\ \E n \in Counts :
          stack' = [stack EXCEPT ![Len(stack)] = [Top EXCEPT !.left = n, !.count = n]]
    /\ UNCHANGED decoder

\* PyList_New
OpenList ==
    /\ IsNext(List, "loop") /\ Top.left > 0
    /\ stack' = Append([stack EXCEPT ![Len(stack)] = [Top EXCEPT !.left = @ - 1]],
                       Started(NextItem.body))
    /\ UNCHANGED decoder

EndLoop ==
    /\ IsNext(List, "loop") /\ Top.left = 0
    /\ stack' = [stack EXCEPT ![Len(stack)] =
                    [Top EXCEPT !.list = Past(List), !.left = NotBegun]]
    /\ UNCHANGED decoder

\* PyList_Append of the list to the one around it
AppendList ==
    /\ List.todo = <<>> /\ Len(stack) > 1
    /\ LET around == stack[Len(stack) - 1]
       IN  stack' = [Front(stack) EXCEPT ![Len(stack) - 1] =
                        [around EXCEPT !.bytes = @ + Top.bytes, !.slot = Top.bytes]]
    /\ UNCHANGED decoder

SkipFreeSlots ==
    /\ IsNext(List, "pad")
    /\ BecomesAndMoves(Past(List), NextItem.missing[Top.count])

ReadSize ==
    /\ IsNext(List, "sized") /\ IsNumber(List, NextItem.field)
    /\ Becomes([Past(List) EXCEPT !.sized = TRUE])

SkipRest ==
    /\ IsNext(List, "realign")
    /\ Becomes([Past(List) EXCEPT !.atEnd = TRUE])

IsDecoded == Len(stack) = 1 /\ List.todo = <<>>

DecoderNext ==
    \/ DecodeByFmt
    \/ SearchResult
    \/ SplitWords
    \/ ReplaceResult
    \/ MapToName
    \/ Branch
    \/ BeginLoop
    \/ OpenList
    \/ EndLoop
    \/ AppendList
    \/ SkipFreeSlots
    \/ ReadSize
    \/ SkipRest
    \/ IsDecoded /\ UNCHANGED decoderVars

DecoderSpec == DecoderInit /\ [][DecoderNext]_decoderVars

-----------------------------------------------------------------------------
(* Properties.  Most of them are about the innermost list alone.           *)

LookupSucceeds(list) ==
    LET item == ItemOf(list)
    IN  list.todo # <<>> =>
            CASE item.op \in {"reads", "names"} -> AreNumbers(list, item.fields)
              [] item.op = "sets"  -> AreFields(list, item.fields)
              [] item.op = "split" -> /\ AreFields(list, SplitFields(item))
                                      /\ AreNumbers(list, NewWords(list))
              [] item.op = "sized" -> IsNumber(list, item.field)
              [] OTHER -> TRUE

PiecesAreInTheWord(list) ==
    IsNext(list, "split") =>
        \A p \in Pieces(list) :
            /\ p[4] > 0 \/ p \in Parts(ItemOf(list))
            /\ p[3] + p[4] <= WidthOf(list, p[1])

PiecesAreGivenOnce(name, list) ==
    IsNext(list, "split") =>
        \A p \in Pieces(list) :
            \A q \in Pieces(list) \cup {t \in list.taken : t[1] \in DOMAIN list.words} :
                p[1] = q[1] => \/ p[3] + p[4] <= q[3]
                               \/ q[3] + q[4] <= p[3]
                               \/ p = q
                               \/ /\ p[3] = q[3] /\ p[4] = q[4]
                                  /\ <<name, {p[2], q[2]}>> \in SameBits

PiecesAreOfOnePiece(list) ==
    IsNext(list, "split") =>
        /\ \A p \in Parts(ItemOf(list)) : p[4] # Multiplied
        /\ \A p, q \in Pieces(list) :
              p[1] = q[1] /\ p[2] = q[2] /\ p[3] < q[3] =>
                  \E r \in Pieces(list) \ {p} :
                      r[1] = p[1] /\ r[2] = p[2] /\ r[3] = p[3] + p[4]

IsFilled(name, list) ==
    list.todo = <<>> =>
        \A f \in DOMAIN list.width :
            list.width[f] = Placeholder => f \in list.spared \/ <<name, f>> \in NeverFilled

IsLeftAtItsEnd(list) == list.todo = <<>> /\ list.sized => list.atEnd

(* Every field that is looked up, replaced or mapped to a name is in the   *)
(* list when this happens, and what is read as a number still is one:      *)
(* _search_result_int asserts it (log_packet_helper.h:94), and a           *)
(* replacement that finds nothing returns NULL to a caller that releases   *)
(* the old value.  Violating it takes a table and a decoder, pages apart,  *)
(* that disagree about a name, or two lookups in the wrong order.          *)
LookupsSucceed == LookupSucceeds(List)

(* The bits a field is given are bits of the packet: the word they are     *)
(* taken from is as wide as the shift and the mask suppose.  A word of a   *)
(* table that is too short, or one that was already replaced by its own    *)
(* lowest bits, would give zeros.                                          *)
BitsAreInTheWord == PiecesAreInTheWord(List)

(* No bit of a packet is a bit of two fields of a list, but of those that  *)
(* the code gives the same bits (SameBits): two fields over each other are *)
(* a shift or a mask that does not fit the table.                          *)
BitsAreGivenOnce == PiecesAreGivenOnce(decoder, List)

(* What a field is given of a word is of one piece: the mask that is       *)
(* applied to the shifted word is one less than a power of two - neither a *)
(* decimal number taken for a hexadecimal one, nor a single high bit - and *)
(* the word is not multiplied by it.                                       *)
BitsAreOfOnePiece == PiecesAreOfOnePiece(List)

(* A list is appended, and a result returned, when every placeholder in it *)
(* has been given its bits, but those of a branch that was not taken and   *)
(* those known to be left out: no analyzer reads a zero that the modem     *)
(* never logged.                                                           *)
PlaceholdersAreFilled == IsFilled(decoder, List)

(* The next record is read from where it is: the slots that a record does  *)
(* not use are as long as those it uses, and a subpacket, of whatever      *)
(* version, is left at the end it declares.                                *)
OffsetIsRight ==
    /\ IsNext(List, "pad") /\ Top.count > 0 =>
          \A n \in DOMAIN NextItem.missing \ {0} :
              n * Top.slot + NextItem.missing[n] = Top.count * Top.slot + NextItem.missing[Top.count]
    /\ IsLeftAtItsEnd(List)

-----------------------------------------------------------------------------
(***************************************************************************)
(* The lists of a decoder.  What an instruction makes of a list depends    *)
(* neither on how often loops were repeated nor on the lists around it, so *)
(* a decoder has a finite number of them, whatever packets say: the lists  *)
(* that are reached when each loop is both passed and entered once.        *)
(***************************************************************************)
Following(list) ==
    LET item == ItemOf(list)
    IN  IF list.todo = <<>> \/ ~LookupSucceeds(list) THEN {}
        ELSE CASE item.op = "fmt"     -> {ByFmt(list)}
               [] item.op = "reads"   -> {Searched(list)}
               [] item.op = "split"   -> {Divided(list)}
               [] item.op = "sets"    -> {WithAll(list, Computed)}
               [] item.op = "names"   -> {WithAll(list, Text)}
               [] item.op = "either"  -> {Taking(list, i) : i \in DOMAIN item.alternatives}
               [] item.op = "loop"    -> {Past(list), Opened(item.body)}
               [] item.op = "pad"     -> {Past(list)}
               [] item.op = "sized"   -> {[Past(list) EXCEPT !.sized = TRUE]}
               [] item.op = "realign" -> {[Past(list) EXCEPT !.atEnd = TRUE]}

\* Pairs of a decoder and a list, among them all that are reached
IsClosed(Lists) ==
    /\ \A d \in DOMAIN Layouts : <<d, Opened(Layouts[d])>> \in Lists
    /\ \A e \in Lists : {e[1]} \X Following(e[2]) \subseteq Lists

\* What is left of its layout, and its fields, are in the ranges of DecoderTypeOK,
\* and the next instruction keeps the offset there, for as many records as there are
IsInRange(list) ==
    LET item == ItemOf(list)
    IN  /\ \A k \in DOMAIN list.todo : list.todo[k].op \in Ops
        /\ \A f \in DOMAIN list.width : list.width[f] \in Text..64
        /\ IsNext(list, "fmt")  => item.bytes \in Nat
        /\ IsNext(list, "loop") => item.exactly \in SUBSET Nat
        /\ IsNext(list, "pad")  => \A n \in 0..MaxCount : /\ n \in DOMAIN item.missing
                                                          /\ item.missing[n] \in Nat

(***************************************************************************)
(* A record, one of those that have free slots behind them, takes as many  *)
(* bytes as the instructions say that it is decoded with.                  *)
(***************************************************************************)
IsSlotted(list) == IsNext(list, "loop") /\ IsNext(Past(list), "pad")
BytesOf(list)   == IF IsNext(list, "fmt") THEN ItemOf(list).bytes ELSE 0

\* <<decoder, layout, list, bytes>>: among them all lists that such a record is
\* decoded into, with the bytes so far.  A record has no records of its own, and
\* slots are skipped behind the records only.
AreRecords(Records, Lists) ==
    /\ \A e \in Lists : IsSlotted(e[2]) =>
          LET body == ItemOf(e[2]).body IN <<e[1], body, Opened(body), 0>> \in Records
    /\ \A r \in Records :
          /\ ~IsNext(r[3], "loop") /\ ~IsNext(r[3], "pad")
          /\ \A l \in Following(r[3]) : <<r[1], r[2], l, r[4] + BytesOf(r[3])>> \in Records
    /\ \A e \in Lists : \A l \in Following(e[2]) : IsNext(l, "pad") => IsNext(e[2], "loop")

\* With slots of that many bytes, the list goes on at the same place behind any
\* number of records
SlotsFit(list, slot) ==
    LET missing == ItemOf(list).missing
    IN  \A m, n \in DOMAIN missing \ {0} : m * slot + missing[m] = n * slot + missing[n]

\* All records that the list has room for are as long as its slots
RecordsFit(Records, name, list) ==
    IsSlotted(list) =>
        \A r \in Records :
            r[1] = name /\ r[2] = ItemOf(list).body /\ r[3].todo = <<>> =>
                SlotsFit(Past(list), r[4])
=============================================================================
