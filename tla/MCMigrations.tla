---------------------------- MODULE MCMigrations ----------------------------
(***************************************************************************)
(* Three migrations in the manner of 0001, 0002 and 0005: tables with      *)
(* indexes, the second of which the third drops and creates anew.          *)
(***************************************************************************)
EXTENDS Migrations

CONSTANTS log, logIndex, precedents, precedentsIndex

MCObject == {log, logIndex, precedents, precedentsIndex}

MCTableOf == [o \in MCObject |-> CASE o = logIndex -> log
                                   [] o = precedentsIndex -> precedents
                                   [] OTHER -> o]

Create(o) == [op |-> "create", object |-> o]
Drop(o) == [op |-> "drop", object |-> o]

MCScript == << <<Create(log), Create(logIndex)>>,
               <<Create(precedents), Create(precedentsIndex)>>,
               <<Drop(precedents), Create(precedents), Create(precedentsIndex)>> >>
=============================================================================
