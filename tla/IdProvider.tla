----------------------------- MODULE IdProvider -----------------------------
(***************************************************************************)
(* Ids of particles that are unique among the ranks of a run without any   *)
(* message: rank r counts on from r with its bits reversed, on the device, *)
(* and isOverflown finds out when a counter has run into another's range.  *)
(* A run may be restarted from the counters it saved, on more ranks.        *)
(*                                                                         *)
(* Ids are Width bits wide.  An issued id belongs to a particle; particles *)
(* made after the counters were saved are gone after a restart.            *)
(***************************************************************************)
EXTENDS Integers, Sequences, FiniteSets

CONSTANTS
    Width,     \* bits of an id
    MaxRanks,  \* bound: ranks of a run
    MaxIds     \* bound: ids a rank issues

ASSUME IdAssumption == Width \in Nat \ {0} /\ MaxRanks \in 1 .. 2 ^ Width /\ MaxIds \in 1 .. 2 ^ Width - 1

VARIABLES
    provider,  \* of each rank: host and device copy of nextId, startId, maxNumProc
    issued,    \* of each rank: ids of its particles
    stored      \* what a checkpoint has of all ranks, or <<>>

idVars == <<provider, issued, stored>>

bit(v, k) == (v \div 2 ^ k) % 2

\* The loop: shift the bits of value out to the right and into result from the right.
RECURSIVE reversed(_, _, _)
reversed(result, value, s) ==
    IF value = 0 THEN (result * 2 ^ s) % 2 ^ Width
    ELSE reversed((2 * result + (value % 2)) % 2 ^ Width, value \div 2, s - 1)

reverseBits(value) == reversed(value, value \div 2, Width - 1)

xor(a, b) ==
    LET sum[k \in 0 .. Width] == IF k = Width THEN 0 ELSE ((bit(a, k) + bit(b, k)) % 2) * 2 ^ k + sum[k + 1]
    IN  sum[0]

bit_width(v) == Cardinality({k \in 0 .. Width - 1 : v >= 2 ^ k})

Provider(r, ranks) ==
    [host |-> reverseBits(r), device |-> -1, start |-> reverseBits(r), maxNumProc |-> ranks]

\* The outcomes: a shift by the whole width is undefined and leaves the value, or nothing.
isOverflown(p) ==
    LET bits == bit_width(p.maxNumProc - 1)
        x    == xor(IF p.device = -1 THEN p.host ELSE p.device, p.start)
    IN  IF bits = 0 THEN {x # 0, FALSE} ELSE {x \div 2 ^ (Width - bits) # 0}

Ranks_ == DOMAIN provider

IdInit ==
    \E n \in 1 .. MaxRanks :
        /\ provider = [r \in 0 .. n - 1 |-> Provider(r, n)]
        /\ issued = [r \in 0 .. n - 1 |-> {}] /\ stored = <<>>

initialize(r) ==
    /\ provider[r].device = -1
    /\ provider' = [provider EXCEPT ![r].device = provider[r].host] /\ UNCHANGED <<issued, stored>>

\* Any thread of any kernel, or getNewIdHost.
fetchInc(r) ==
    /\ provider[r].device # -1 /\ Cardinality(issued[r]) < MaxIds
    /\ issued' = [issued EXCEPT ![r] = @ \cup {<<provider[r].device, Cardinality(@)>>}]
    /\ provider' = [provider EXCEPT ![r].device = (@ + 1) % 2 ^ Width]
    /\ UNCHANGED stored

state(p) == [nextId |-> p.host, startId |-> p.start, maxNumProc |-> p.maxNumProc]

synchronized(p) == [p EXCEPT !.host = p.device]

\* All ranks synchronize and write their state into a checkpoint.
checkpointIds ==
    /\ \A r \in Ranks_ : provider[r].device # -1
    /\ provider' = [r \in Ranks_ |-> synchronized(provider[r])]
    /\ stored' = [r \in Ranks_ |-> [state |-> state(provider'[r]), issued |-> issued[r]]]
    /\ stored' # stored /\ UNCHANGED issued

\* The number of ranks never decreases.
setStateHost(p, s) ==
    [p EXCEPT !.host = s.nextId, !.start = s.startId,
              !.maxNumProc = IF @ < s.maxNumProc THEN s.maxNumProc ELSE @]

\* A run on n ranks, at least those of the checkpoint, each with its own state set again.
restartIds(n) ==
    /\ stored # <<>> /\ Cardinality(DOMAIN stored) <= n
    /\ provider' = [r \in 0 .. n - 1 |->
         IF r \in DOMAIN stored THEN setStateHost(Provider(r, n), stored[r].state) ELSE Provider(r, n)]
    /\ issued' = [r \in 0 .. n - 1 |-> IF r \in DOMAIN stored THEN stored[r].issued ELSE {}]
    /\ UNCHANGED stored

IdNext ==
    \/ checkpointIds
    \/ \E r \in Ranks_ : initialize(r) \/ fetchInc(r)
    \/ \E n \in 1 .. MaxRanks : restartIds(n)

-----------------------------------------------------------------------------
\* As long as the check finds no rank overflown, no two particles have the same id, however
\* the threads of all ranks interleave and however often the run was restarted on more ranks.
IdsUnique ==
    (\A r \in Ranks_ : FALSE \in isOverflown(provider[r])) =>
        \A q, r \in Ranks_ : \A a \in issued[q], b \in issued[r] : a[1] = b[1] => q = r /\ a = b
=============================================================================
