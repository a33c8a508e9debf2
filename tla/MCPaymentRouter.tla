--------------------------- MODULE MCPaymentRouter ---------------------------
(***************************************************************************)
(* PaymentRouter on graphs over four nodes: seven channels, two of them    *)
(* parallel, each closed or open under some of the policies.               *)
(***************************************************************************)
EXTENDS PaymentRouter

CONSTANTS S, A, B, D

(* Fees in msat; a capacity of 1 sat is 1000 msat, and the payment is 900. *)
Policy ==
  LET free == [base |-> 0, ppm |-> 0, cltv |-> 10, min |-> 1, max |-> 5000,
               capacity |-> 5, disabled |-> FALSE]
  IN  [free |-> free,
       toll |-> [free EXCEPT !.base = 20, !.ppm = 100000, !.cltv = 5],
       narrow |-> [free EXCEPT !.base = 60, !.capacity = 1],
       picky |-> [free EXCEPT !.min = 1000, !.max = 1100],
       closed |-> [free EXCEPT !.disabled = TRUE]]

(* What each channel may be. *)
Channels ==
  << [from |-> S, to |-> A, may |-> {"free", "narrow", "picky", "closed"}],
     [from |-> S, to |-> B, may |-> {"free", "toll", "closed"}],
     [from |-> A, to |-> B, may |-> {"free", "narrow", "closed"}],
     [from |-> B, to |-> A, may |-> {"toll", "free", "closed"}],
     [from |-> A, to |-> D, may |-> {"free", "narrow", "toll"}],
     [from |-> B, to |-> D, may |-> {"toll", "narrow", "closed"}],
     [from |-> B, to |-> D, may |-> {"free", "picky", "closed"}] >>

EdgeOf(c, p) ==
  [from |-> Channels[c].from, to |-> Channels[c].to,
   base |-> p.base, ppm |-> p.ppm, cltv |-> p.cltv, min |-> p.min, max |-> p.max,
   capacity |-> p.capacity, disabled |-> p.disabled]

MCNodes == {S, A, B, D}
MCGraphs ==
  {[c \in DOMAIN Channels |-> EdgeOf(c, Policy[names[c]])] :
     names \in {f \in [DOMAIN Channels -> DOMAIN Policy] :
                  \A c \in DOMAIN Channels : f[c] \in Channels[c].may}}
MCPayments == {[src |-> S, dst |-> D, amount |-> 900], [src |-> S, dst |-> S, amount |-> 900]}
=============================================================================
