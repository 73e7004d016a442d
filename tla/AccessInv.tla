------------------------------- MODULE AccessInv -------------------------------
(***************************************************************************)
(* The inductive invariant of Access.  As long as a request has not read   *)
(* its member, whatever would pass now has been witnessed; what it reads   *)
(* is what would pass at that moment, and is never read again.             *)
(***************************************************************************)
EXTENDS Access

\* The request as it would be with its member read at this moment.
WouldPass(c) == Passes([c EXCEPT !.actor = Actor(c.user)])

CallFits(c) ==
    /\ c.stage = "ARRIVED" => c.user \in Users /\ (WouldPass(c) => c.stood = TRUE)
    /\ c.stage = "READ" => c.signed = FALSE \/ (Passes(c) => c.stood = TRUE)
    /\ c.stage = "SERVED" => c.signed = FALSE \/ c.stood = TRUE

IInv ==
    /\ TypeOK
    /\ DOMAIN call = Servers
    /\ \A w \in Servers : CallFits(call[w])
=============================================================================
