---------------------------- MODULE MCPhoneAuth ----------------------------
(***************************************************************************)
(* PhoneAuth for two deliveries.  A unit of time is a minute: windows and  *)
(* validity of one, two for the cache and the lock, less than one for a    *)
(* remembered cancel.  Challenges are interchangeable, and so are          *)
(* deliveries, so that the first may be fixed to carry one challenge and   *)
(* not to be the only one that comes over BLE; what a request that is      *)
(* never delivered asks for is of no interest.                             *)
(***************************************************************************)
EXTENDS PhoneAuth

First == CHOOSE d \in Delivery : TRUE

MCInit ==
    /\ Init
    /\ h[First].c = CHOOSE c \in Challenge : TRUE
    /\ h[First].tr = "BLE" => \A d \in Delivery : h[d].tr = "BLE"
    /\ \A c \in Challenge : (\A d \in Delivery : h[d].c # c)
                              => asks[c].user \in Allowed

MCFairSpec == MCInit /\ [][Next]_vars /\ Fairness
=============================================================================
