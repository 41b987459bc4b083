----------------------------- MODULE FrameChannel -----------------------------
(***************************************************************************)
(* What the link from the app to socket_read promises: events, one after   *)
(* the other, in sessions.  In a reliable session each event sent to its   *)
(* end is delivered at that moment, unaltered; a session that starts       *)
(* unreliable loses events until the two ends line up, which happens only  *)
(* between two events, and no session ever becomes unreliable again.       *)
(*                                                                         *)
(* FrameParser implements it: bytes, lengths and sums are its own affair.  *)
(***************************************************************************)
EXTENDS Sequences

CONSTANT Events
None == <<>>

VARIABLES
    up,         \* a session is on
    outgoing,   \* the event being sent, or None
    reliable,   \* the two ends have lined up in this session
    delivered   \* events handed over since the session became reliable

vars == <<up, outgoing, reliable, delivered>>

Init ==
    /\ up = FALSE
    /\ outgoing = None
    /\ reliable = FALSE
    /\ delivered = <<>>

Open ==
    /\ ~up
    /\ up' = TRUE
    /\ reliable' \in BOOLEAN
    /\ delivered' = <<>>
    /\ UNCHANGED outgoing

Send(event) ==
    /\ up /\ outgoing = None
    /\ outgoing' = event
    /\ UNCHANGED <<up, reliable, delivered>>

Deliver ==
    /\ up /\ reliable /\ outgoing # None
    /\ delivered' = Append(delivered, outgoing)
    /\ outgoing' = None
    /\ UNCHANGED <<up, reliable>>

Lose ==
    /\ up /\ ~reliable /\ outgoing # None
    /\ outgoing' = None
    /\ reliable' \in BOOLEAN
    /\ UNCHANGED <<up, delivered>>

\* The session ends, in the middle of an event or not.
Cut ==
    /\ up
    /\ up' = FALSE
    /\ outgoing' = None
    /\ UNCHANGED <<reliable, delivered>>

Next == Open \/ (\E event \in Events : Send(event)) \/ Deliver \/ Lose \/ Cut

Spec == Init /\ [][Next]_vars
=============================================================================
