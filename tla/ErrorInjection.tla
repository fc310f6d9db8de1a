--------------------------- MODULE ErrorInjection ---------------------------
(***************************************************************************)
(* pkg/errorinjector: what the x-error-* and x-delay-* headers of a request *)
(* make an action do.                                                      *)
(*                                                                         *)
(* A request asks for trouble in one action.  A share is the percentage    *)
(* header that goes with an error or a delay; a delay is long when it       *)
(* outlasts the timeout of the internal client.                            *)
(***************************************************************************)
EXTENDS Naturals

Actions == {"get-ingredients", "record-recommendation"}
Shares == {"absent", "unparsable", "0", "50", "100"}
Delays == {"absent", "unparsable", "brief", "long"}

Headers == [action : Actions, error : BOOLEAN, errorShare : Shares,
            delay : Delays, delayShare : Shares]

NoHeaders == [action |-> "get-ingredients", error |-> FALSE, errorShare |-> "absent",
              delay |-> "absent", delayShare |-> "absent"]

Outcomes == {"error", "slow", "none"}

\* What the comparison with rand.Float64 may give.  A share that does not
\* parse counts as zero; one that is missing counts as all.
Draws(share) ==
  {drawn \in BOOLEAN : /\ share \in {"0", "unparsable"} => ~drawn
                       /\ share \in {"absent", "100"} => drawn}

\* What InjectErrors may do.  It looks at the delay if it returns no error; a
\* duration that does not parse is zero.
InjectErrors(headers, action) ==
  IF headers.action # action THEN {"none"}
  ELSE {outcome \in Outcomes :
          /\ outcome = "error" => headers.error /\ TRUE \in Draws(headers.errorShare)
          /\ outcome # "error" => (headers.error => FALSE \in Draws(headers.errorShare))
          /\ outcome = "slow" => headers.delay = "long" /\ TRUE \in Draws(headers.delayShare)
          /\ outcome = "none" => (headers.delay = "long" => FALSE \in Draws(headers.delayShare))}

\* Mutant of AddErrorHeaders: the list lacks the percentages.
WithoutShares(headers) == [headers EXCEPT !.errorShare = "absent", !.delayShare = "absent"]
\* The headers that the internal client adds to a call: all those in the
\* context of the request that it serves.
AddErrorHeaders(headers) == headers

=============================================================================
