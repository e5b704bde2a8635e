---------------------------- MODULE RequestSync ----------------------------
(***************************************************************************)
(* What the database controller promises about one framework request, as   *)
(* its users see it: the request they want, the requests the API server    *)
(* has held, and whether the platform claims that the two agree.           *)
(*                                                                         *)
(*   - the wanted request changes one generation at a time and is never    *)
(*     rolled back;                                                        *)
(*   - the API server is only ever given a request that is the wanted one  *)
(*     or an older one, and a generation names one request;                *)
(*   - the claim is made only for a request that the API server has held,  *)
(*     and every new request withdraws it.                                 *)
(*                                                                         *)
(* DatabaseController implements this module.                              *)
(***************************************************************************)
EXTENDS Naturals

CONSTANTS Requests, None

VARIABLES
    desired,    \* the request users want, or None
    reached,    \* the requests the API server has held
    acked       \* whether the desired request is claimed to be synchronized

vars == <<desired, reached, acked>>

Init ==
    /\ desired = None
    /\ reached = {}
    /\ acked = FALSE

Submit ==
    /\ desired = None
    /\ desired' \in Requests /\ desired'.gen = 1
    /\ acked' = FALSE
    /\ UNCHANGED reached

Change ==
    /\ desired # None
    /\ desired' \in Requests /\ desired'.gen = desired.gen + 1
    /\ acked' = FALSE
    /\ UNCHANGED reached

Reach ==
    /\ desired # None
    /\ reached \subseteq reached'
    /\ \A r \in reached' \ reached :
          /\ r \in Requests
          /\ r.gen <= desired.gen
          /\ r.gen = desired.gen => r = desired
    /\ UNCHANGED <<desired, acked>>

Acknowledge ==
    /\ desired \in reached
    /\ acked' = TRUE
    /\ UNCHANGED <<desired, reached>>

Withdraw ==
    /\ acked' = FALSE
    /\ UNCHANGED <<desired, reached>>

Next == Submit \/ Change \/ Reach \/ Acknowledge \/ Withdraw

Spec == Init /\ [][Next]_vars
=============================================================================
