------------------------------- MODULE RunLog -------------------------------
(***************************************************************************)
(* What the MCP run store promises, with no processes, locks or files.     *)
(*                                                                         *)
(* A run is a contract and a stream of events that grows at its tip, one   *)
(* admission record at a time: the record and all its events come in one   *)
(* step and are bound to the stream they were decided on. A stable part of *)
(* each run survives a loss of power.                                      *)
(***************************************************************************)
EXTENDS Integers, SequencesExt

CONSTANTS Runs, NoRun

VARIABLES
    log,      \* log[r]: NoRun, or the run as [contract, events, admissions]
    stable    \* stable[r]: the part of log[r] that is certain to survive

vars == <<log, stable>>

Init ==
    /\ log = [r \in Runs |-> NoRun]
    /\ stable = log

Begins(r) ==
    /\ log[r] = NoRun
    /\ log'[r] # NoRun
    /\ log'[r].events = <<>>
    /\ log'[r].admissions = <<>>

\* One record is added, and its events, at the tip it is bound to; their IDs are new.
Grows(r) ==
    LET old == log[r]
        new == log'[r]
        n == Len(old.events)
        rec == Last(new.admissions)
    IN /\ old # NoRun
       /\ new # NoRun
       /\ new.contract = old.contract
       /\ Len(new.admissions) = Len(old.admissions) + 1
       /\ new.admissions = Append(old.admissions, rec)
       /\ rec.base = [contract |-> old.contract, events |-> old.events]
       /\ rec.ids # <<>>
       /\ new.events = old.events \o SubSeq(new.events, n + 1, n + Len(rec.ids))
       /\ Len(new.events) = n + Len(rec.ids)
       /\ \A i \in 1 .. Len(rec.ids) :
             /\ new.events[n + i].id = rec.ids[i]
             /\ \A j \in 1 .. n + i - 1 : new.events[j].id # rec.ids[i]

Write(r) ==
    /\ Begins(r) \/ Grows(r)
    /\ \A s \in Runs \ {r} : log'[s] = log[s]
    /\ UNCHANGED stable

Stabilise ==
    /\ stable' = log
    /\ UNCHANGED log

\* y is x, or what x has grown to.
IsPast(x, y) ==
    \/ x = NoRun
    \/ /\ x # NoRun /\ y # NoRun
       /\ x.contract = y.contract
       /\ IsPrefix(x.events, y.events)
       /\ IsPrefix(x.admissions, y.admissions)

PowerLoss ==
    /\ \A r \in Runs : IsPast(stable[r], log'[r]) /\ IsPast(log'[r], log[r])
    /\ stable' = log'

Next == (\E r \in Runs : Write(r)) \/ Stabilise \/ PowerLoss

Spec == Init /\ [][Next]_vars

============================================================================
