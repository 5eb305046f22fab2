---------------------------- MODULE MCSyncRunner ----------------------------
(***************************************************************************)
(* A small instance of SyncRunner: a chain of three pages of one to three  *)
(* items; the last one may also lead back, to itself, or nowhere.          *)
(***************************************************************************)
EXTENDS SyncRunner

CONSTANTS page2, page3

MCCursors == {page2, page3}

Leads(size, to) == [size |-> size, next |-> to, more |-> TRUE]
Ends(size)      == [size |-> size, next |-> NoCursor, more |-> FALSE]

MCAnswers ==
  [c \in MCCursors \union {NoCursor} |->
     CASE c = NoCursor -> {Leads(1, page2)}
       [] c = page2    -> {Leads(2, page3), Leads(3, page3)}
       [] c = page3    -> {Ends(1), Ends(3), Leads(1, page2), Leads(1, page3), Leads(1, NoCursor)}]
=============================================================================
