------------------------------- MODULE Bridge -------------------------------
(***************************************************************************)
(* What the transfer of assets between chains promises: every asset has a  *)
(* home chain, and a unit of it is owned by somebody at home, owned by     *)
(* somebody on another chain, or on its way there or back.  Units move     *)
(* between these places one way round; they are made and destroyed only by *)
(* their owners' will.                                                     *)
(***************************************************************************)
EXTENDS Naturals

CONSTANTS
  Chains,     \* the chains
  Originals,  \* assets, each of which exists once per home chain
  Minted,     \* the assets that can be minted
  Amounts     \* how many units a step may move

VARIABLE
  units  \* where the units of the asset x of the chain c are: `home`, and per
         \* other chain `abroad`, `going` there and `coming` back

Init ==
  \A c \in Chains, x \in Originals :
    LET none == [d \in Chains |-> 0]
        u    == units[c][x]
    IN /\ u = [home |-> u.home, abroad |-> none, going |-> none, coming |-> none]
       /\ x \in Minted => u.home = 0

\* Steps of one asset, from u to w.
Mint(u, w, v) == w = [u EXCEPT !.home = @ + v]
Burn(u, w, v) == v <= u.home /\ w = [u EXCEPT !.home = @ - v]

Depart(u, w, d, v) ==
  v <= u.home /\ w = [u EXCEPT !.home = @ - v, !.going[d] = @ + v]
Arrive(u, w, d, v) ==
  v <= u.going[d] /\ w = [u EXCEPT !.going[d] = @ - v, !.abroad[d] = @ + v]
BurnAbroad(u, w, d, v) ==
  v <= u.abroad[d] /\ w = [u EXCEPT !.abroad[d] = @ - v]
Leave(u, w, d, v) ==
  v <= u.abroad[d] /\ w = [u EXCEPT !.abroad[d] = @ - v, !.coming[d] = @ + v]
Return(u, w, d, v) ==
  v <= u.coming[d] /\ w = [u EXCEPT !.coming[d] = @ - v, !.home = @ + v]

Step(x, u, w) ==
  \E v \in Amounts :
    \/ x \in Minted /\ Mint(u, w, v)
    \/ Burn(u, w, v)
    \/ \E d \in Chains :
         \/ Depart(u, w, d, v) \/ Arrive(u, w, d, v) \/ BurnAbroad(u, w, d, v)
         \/ Leave(u, w, d, v) \/ Return(u, w, d, v)

\* Some of one asset of one chain moves.
Next ==
  \E old \in {units}, new \in {units'} :
    /\ old # new
    /\ \E c \in Chains, x \in Originals :
         /\ new = [old EXCEPT ![c][x] = new[c][x]]
         /\ Step(x, old[c][x], new[c][x])

Spec == Init /\ [][Next]_units
=============================================================================
