------------------------ MODULE MCDatabaseController ------------------------
(* Values of the constants of DatabaseController for TLC. *)
EXTENDS DatabaseController
CONSTANTS s1, s2, b1, b2

NothingRejected == {}
SomeRejected == { [body |-> b1, exec |-> "Stop"], [body |-> b2, exec |-> "Start"] }

Calm         == [submit |-> {<<s1, b1>>}, patch |-> 0, retry |-> 0, delete |-> 0, restart |-> 0]
OnlyPatch    == [Calm EXCEPT !.patch = 1]
PatchRetry   == [OnlyPatch EXCEPT !.retry = 1]
PatchLost    == [OnlyPatch EXCEPT !.delete = 1, !.restart = 1]
DeleteRetry  == [Calm EXCEPT !.delete = 1, !.retry = 1]
TwoSubmitted == [Calm EXCEPT !.submit = {<<s1, b1>>, <<s2, b2>>}]

RacedOrDisturbed == { TwoSubmitted, PatchRetry, PatchLost }
PatchedOrDeleted == { OnlyPatch, DeleteRetry }
=============================================================================
