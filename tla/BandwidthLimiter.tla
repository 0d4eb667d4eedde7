-------------------------- MODULE BandwidthLimiter --------------------------
(***************************************************************************)
(* The bandwidth limiter of noray (relay/bandwidth.limiter.mjs), as        *)
(* operators on the state of one limiter.                                  *)
(*                                                                         *)
(* `interval' is the length of a time slice in ticks, `limit' the bytes    *)
(* allotted to a slice: the product of #maxTraffic and #interval.  The     *)
(* timestamp #lastInterval is kept as the ticks that passed since.         *)
(* `datagrams' is a history: how many datagrams the slice carried, where 2 *)
(* stands for several.  No step reads it.                                  *)
(***************************************************************************)
EXTENDS Naturals

Limiter(interval) == [elapsed : 0 .. interval + 1, traffic : Nat, datagrams : 0 .. 2]

\* A limiter starts a slice when it is constructed.
NewLimiter == [elapsed |-> 0, traffic |-> 0, datagrams |-> 0]

SliceOverOnTime(l, interval) == l.elapsed >= interval     \* mutant: >= instead of >

\* validate looks at the clock only when there is traffic, so a slice lasts
\* until the first datagram after its end.
SliceOver(l, interval) == l.elapsed > interval

\* Mutant: the limit is looked at before the datagram is added.
AcceptsUntilOver(l, size, limit, interval) ==
    SliceOver(l, interval) \/ l.traffic <= limit

\* validate throws unless Accepts.
Accepts(l, size, limit, interval) ==
    \/ SliceOver(l, interval)           \* returns before the limit is looked at
    \/ l.traffic + size <= limit

\* The limiter after a datagram that it accepts.
Charged(l, size, interval) ==
    IF SliceOver(l, interval)
    THEN [elapsed |-> 0, traffic |-> size, datagrams |-> 1]
    ELSE [l EXCEPT !.traffic = @ + size, !.datagrams = IF @ = 0 THEN 1 ELSE 2]

\* One tick later; elapsed stops counting when the slice is over.
Waited(l, interval) ==
    [l EXCEPT !.elapsed = IF SliceOver(l, interval) THEN @ ELSE @ + 1]

=============================================================================
