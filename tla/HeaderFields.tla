---------------------------- MODULE HeaderFields ----------------------------
(***************************************************************************)
(* Response::headers() and header() of cofetch (include/cofetch.h): finding *)
(* the fields of the final response in header_data_.                       *)
(*                                                                         *)
(* libcurl hands header_cb the header lines of everything it receives for  *)
(* a request, one by one: a block per redirect hop, interim response and   *)
(* final response, each opened by a status line and closed by a blank one, *)
(* and the trailers after the last.  A transfer may end after any of them, *)
(* and the completion handler may then ask for the fields: the properties  *)
(* are those of the text received so far.                                  *)
(*                                                                         *)
(* A line is kept for what the parser tells apart: a status line has a     *)
(* colon (in its reason phrase) or not.  A field name is one of several    *)
(* Spellings of a name, and Folded says which spellings are the same name. *)
(*                                                                         *)
(* Definitions named Mut... are plausible bugs, each a changed form of the *)
(* definition it precedes; no part of the specification uses them.         *)
(***************************************************************************)
EXTENDS Naturals, Sequences, FiniteSetsExt, SequencesExt

CONSTANTS
  Spellings,  \* field names as they are written
  Folded,     \* the lower-case form of each spelling
  Values,     \* field values, trimmed
  MaxLines    \* bound of the model: lines of the longest text

ASSUME FoldedAssumption == Folded \in [Spellings -> Spellings]
ASSUME BoundAssumption  == MaxLines \in Nat
(* What precedes the colon of a status line has a '/': it is no field name. *)
ASSUME NamesAssumption  == "status" \notin Spellings

VARIABLES
  text,    \* header_data_
  block,   \* what curl is receiving: nothing yet, a block, or its body
  final,   \* history: the fields since the last status line
  titled   \* history: that line has a colon

vars == <<text, block, final, titled>>

Status(colon)   == [kind |-> "status", colon |-> colon]
Blank           == [kind |-> "blank", colon |-> FALSE]
Field(name, v)  == [kind |-> "field", colon |-> TRUE, name |-> name, value |-> v]

FieldType == [name : Spellings, value : Values]
Lines == {Status(c) : c \in BOOLEAN} \union {Blank}
           \union {Field(n, v) : n \in Spellings, v \in Values}

TypeOK ==
  /\ text \in Seq(Lines) /\ Len(text) <= MaxLines
  /\ block \in {"none", "open", "closed"}
  /\ final \in Seq(FieldType)
  /\ titled \in BOOLEAN

Init ==
  /\ text = <<>>
  /\ block = "none"
  /\ final = <<>>
  /\ titled = FALSE

-----------------------------------------------------------------------------
(* header_cb appends what curl received. *)
MutHeaderCb(buf, line) == buf \o <<line, line>>

HeaderCb(buf, line) == Append(buf, line)

StatusLine ==
  /\ block # "open"
  /\ \E colon \in BOOLEAN :
       text' = HeaderCb(text, Status(colon)) /\ titled' = colon
  /\ block' = "open"
  /\ final' = <<>>

(* A field of an open block, or a trailer. *)
FieldLine ==
  /\ block # "none"
  /\ \E n \in Spellings, v \in Values :
       /\ text' = HeaderCb(text, Field(n, v))
       /\ final' = Append(final, [name |-> n, value |-> v])
  /\ UNCHANGED <<block, titled>>

BlankLine ==
  /\ block = "open"
  /\ text' = HeaderCb(text, Blank)
  /\ block' = "closed"
  /\ UNCHANGED <<final, titled>>

Next ==
  /\ Len(text) < MaxLines
  /\ StatusLine \/ FieldLine \/ BlankLine

Spec == Init /\ [][Next]_vars

-----------------------------------------------------------------------------
(* for_each_field *)

(* rfind("\nHTTP/"): the last status line that follows another line, or    *)
(* else the start of the text.                                             *)
MutFinalStart(s) == 1

FinalStart(s) ==
  Max({1} \union {i \in 2..Len(s) : s[i].kind = "status"})

(* A line without a colon is a status line or blank, and is skipped.  What *)
(* is before the colon of any other line is taken for a name.              *)
IsField(line) == line.colon

(* A status line with a colon yields a "name" that no field has. *)
Parsed(line) ==
  IF line.kind = "field" THEN [name |-> line.name, value |-> line.value]
                         ELSE [name |-> "status", value |-> "reason"]

ForEachField(s) ==
  FoldLeft(LAMBDA fields, line : IF IsField(line) THEN Append(fields, Parsed(line))
                                                 ELSE fields,
           <<>>, SubSeq(s, FinalStart(s), Len(s)))

(* CiEqual *)
MutSameName(m, n) == m = n

SameName(m, n) ==
  \/ m = n
  \/ {m, n} \subseteq Spellings /\ Folded[m] = Folded[n]

(* header(name): the values of the fields of that name, combined; an empty *)
(* sequence stands for nullopt.                                            *)
MutHeader(s, name) ==
  FoldLeft(LAMBDA found, f : IF SameName(f.name, name) THEN <<f.value>> ELSE found,
           <<>>, ForEachField(s))

Header(s, name) ==
  FoldLeft(LAMBDA found, f : IF SameName(f.name, name) THEN Append(found, f.value)
                                                       ELSE found,
           <<>>, ForEachField(s))

(* headers(): a map whose key is the first spelling met; a name that is in *)
(* the map has its value combined.                                         *)
Emplace(map, f) ==
  LET same == {key \in DOMAIN map : SameName(key, f.name)}
  IN  [key \in DOMAIN map \union (IF same = {} THEN {f.name} ELSE {}) |->
         IF key \notin DOMAIN map THEN <<f.value>>
         ELSE IF key \in same THEN Append(map[key], f.value)
         ELSE map[key]]

Headers(s) == FoldLeft(Emplace, <<>>, ForEachField(s))

(* headers().find(name) *)
Found(map, name) ==
  LET same == {key \in DOMAIN map : SameName(key, name)}
  IN  IF same = {} THEN <<>> ELSE map[CHOOSE key \in same : TRUE]

-----------------------------------------------------------------------------

(* What a status line with a colon is taken for: an entry like a field's,  *)
(* under a name no field has.                                              *)
Title(colon) == IF colon THEN <<[name |-> "status", value |-> "reason"]>> ELSE <<>>

(* The parser finds the fields of the final response, all of them and in   *)
(* order, and of no earlier hop, wherever the text breaks off.  One entry  *)
(* more comes first, though the status line is to be skipped, when its     *)
(* reason phrase has a colon: it hides no field, and there is no other.    *)
FinalResponseOnly == ForEachField(text) = Title(titled) \o final

(* header(name) and headers().find(name) agree, however the name and the   *)
(* fields are spelled.                                                     *)
LookupsAgree ==
  \A name \in Spellings : Header(text, name) = Found(Headers(text), name)

(* The places in the final response of the fields of a name.              *)
Own(name) == {i \in DOMAIN final : Folded[final[i].name] = Folded[name]}

(* A field that repeats has all its values combined in order, under any of *)
(* its spellings, and the map has one entry for all of them.               *)
ValuesInOrder(name) ==
  /\ Len(Header(text, name)) = Cardinality(Own(name))
  /\ \A i \in Own(name) :
       Header(text, name)[Cardinality({j \in Own(name) : j <= i})] = final[i].value

RepeatsAreCombined ==
  /\ \A name \in Spellings : ValuesInOrder(name)
  /\ \A m, n \in DOMAIN Headers(text) : SameName(m, n) => m = n

(* Why: the last status line is the first line of what curl receives.      *)
BlockInv == block = "none" <=> text = <<>>

(* The entries that are fields, a status line taken for one left out.      *)
Only(entries) ==
  FoldLeft(LAMBDA kept, e : IF e.name \in Spellings THEN Append(kept, e) ELSE kept,
           <<>>, entries)

OnlyFinal == Only(ForEachField(text)) = final

IInv ==
  /\ TypeOK /\ BlockInv
  /\ FinalResponseOnly /\ OnlyFinal /\ LookupsAgree /\ RepeatsAreCombined

=============================================================================
