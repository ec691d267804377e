------------------------------- MODULE FMCall -------------------------------
(***************************************************************************)
(* An object that is built, or not, and one query on it at a time.  The    *)
(* modules that extend this one give the steps of the queries; a query has *)
(* its locals in loc.                                                      *)
(***************************************************************************)
EXTENDS FMObject

CONSTANTS
    Corpora, Requests,  \* as in DocIndex
    Rates               \* values of sa_sample_rate_ (Build takes 0 for 1)

\* Documents and patterns are sequences of bytes, and an error budget is
\* unsigned.
ASSUME CallAssumption ==
    /\ Corpora \subseteq [docs : Seq(Seq(Bytes)), cf : BOOLEAN]
    /\ Rates \subseteq Nat \ {0}
    /\ \A q \in Requests :
         \/ q.op \in {"LongestMatch", "NextTokenCounts"} /\ q.p \in Seq(Bytes)
         \/ q.op = "FuzzyMatchingDocs" /\ q.p \in Seq(Bytes) /\ q.k \in Nat
         \/ q.op \in {"CountBatch", "LocateDocsBatch"} /\ q.ps \in Seq(Seq(Bytes))

VARIABLES
    fm,         \* the object
    corpus,     \* history: <<>> or <<its corpus>>
    pc,         \* "idle", the name of a query that was called, or a place in it
    req, res,   \* the query and its answer, <<>> when there is none
    loc         \* the locals of the query

vars == <<fm, corpus, pc, req, res, loc>>
NoLocals == <<>>

Init == fm = Fresh /\ corpus = <<>> /\ pc = "idle" /\ req = <<>> /\ res = <<>> /\ loc = NoLocals

\* Build, whose steps are those of FMIndex.
Build ==
    /\ pc = "idle" /\ fm = Fresh
    /\ \E c \in Corpora, rate \in Rates : /\ fm' = Built(c.docs, c.cf, rate)
                                          /\ corpus' = <<c>>
    /\ UNCHANGED <<pc, req, res, loc>>

Call == /\ pc = "idle"
        /\ \E q \in Requests : req' = <<q>> /\ pc' = q.op
        /\ UNCHANGED <<fm, corpus, res, loc>>

\* A step inside a query.
Go(place, locals) ==
    /\ pc' = place /\ loc' = locals
    /\ UNCHANGED <<fm, corpus, req, res>>

Respond(x) ==
    /\ res' = <<x>> /\ pc' = "done" /\ loc' = NoLocals
    /\ UNCHANGED <<fm, corpus, req>>

Return == /\ pc = "done"
          /\ req' = <<>> /\ res' = <<>> /\ pc' = "idle"
          /\ UNCHANGED <<fm, corpus, loc>>
=============================================================================
