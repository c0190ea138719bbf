---------------------------- MODULE SchemaLadder ----------------------------
(***************************************************************************)
(* What the migrations runner promises of the database, whoever runs it    *)
(* and however often: the schema climbs one version at a time, each body   *)
(* takes effect once, and schema_migrations knows exactly what has.        *)
(***************************************************************************)
EXTENDS Naturals, Sequences

CONSTANT LastVersion  \* how many migrations the binary embeds

VARIABLES schema,   \* the bodies that have taken effect, in order
          versions  \* the rows of schema_migrations

ladderVars == <<schema, versions>>

LadderInit ==
    /\ schema = <<>>
    /\ versions = {}

\* A migration "applies completely and is recorded" in one step.
Climb ==
    LET next == Len(schema) + 1
    IN  /\ next <= LastVersion
        /\ schema' = Append(schema, next)
        /\ versions' = versions \cup {next}

LadderSpec == LadderInit /\ [][Climb]_ladderVars
=============================================================================
