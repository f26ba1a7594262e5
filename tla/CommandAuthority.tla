-------------------------- MODULE CommandAuthority --------------------------
(***************************************************************************)
(* What the sequence manager promises about who may command the plant, by  *)
(* itself and without threads, flags or a mutex.  A run hands the          *)
(* authority over: it is nobody's again ("over") only after its last       *)
(* command.  A safe state is commanded only right after a run, once per    *)
(* run, and either completely or the manager never commands again          *)
(* ("stuck").  The operator may change states only while nobody holds the  *)
(* authority.                                                              *)
(***************************************************************************)
EXTENDS Naturals

VARIABLES phase,    \* who holds the authority
          pending,  \* abort actions still to be tried
          issuer    \* who issued the last command

authorityVars == <<phase, pending, issuer>>

Phases  == {"idle", "sequence", "over", "abort", "stuck"}
Issuers == {"nobody", "sequence", "abort", "operator"}

Init == phase = "idle" /\ pending = {} /\ issuer = "nobody"

SequenceBegins ==
  phase = "idle" /\ phase' = "sequence" /\ UNCHANGED <<pending, issuer>>

SequenceCommands ==
  phase = "sequence" /\ issuer' = "sequence" /\ UNCHANGED <<phase, pending>>

SequenceEnds ==
  phase = "sequence" /\ phase' = "over" /\ UNCHANGED <<pending, issuer>>

\* The run is forgotten: it can no longer be aborted.
RunForgotten ==
  phase = "over" /\ phase' = "idle" /\ UNCHANGED <<pending, issuer>>

AbortBegins ==
  /\ phase = "over" /\ phase' = "abort"
  /\ pending' \in SUBSET Nat
  /\ UNCHANGED issuer

AbortCommands ==
  /\ phase = "abort"
  /\ \E a \in pending : pending' = pending \ {a}
  /\ issuer' = "abort"
  /\ UNCHANGED phase

AbortEnds ==
  phase = "abort" /\ pending = {} /\ phase' = "idle" /\ UNCHANGED <<pending, issuer>>

AbortBreaks ==
  /\ phase = "abort" /\ pending # {}
  /\ phase' = "stuck" /\ pending' = {}
  /\ UNCHANGED issuer

OperatorCommands ==
  phase \in {"idle", "over"} /\ issuer' = "operator" /\ UNCHANGED <<phase, pending>>

Next == \/ SequenceBegins \/ SequenceCommands \/ SequenceEnds \/ RunForgotten
        \/ AbortBegins \/ AbortCommands \/ AbortEnds \/ AbortBreaks
        \/ OperatorCommands

Spec == Init /\ [][Next]_authorityVars
=============================================================================
