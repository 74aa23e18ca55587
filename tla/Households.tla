------------------------------ MODULE Households ------------------------------
(***************************************************************************)
(* What the family service promises about memberships, without how.  An    *)
(* account has one membership at most.  It comes by one only in two ways:  *)
(* as the owner of a family it has just founded, or as the one guest of an *)
(* invite code, in the family the code was issued for; and a code or a     *)
(* founding serves once.  A plain member may depart; an owner stays,       *)
(* unless two departures of the account overlapped.                        *)
(***************************************************************************)
CONSTANTS Accounts, FamilyIds, Codes, NoAccount, NoFamily

VARIABLES
  founder,   \* founder[f]: the account that founded f, or NoAccount
  founding,  \* families whose founder has yet to take its seat
  seat,      \* seat[a]: the family of a's membership, or NoFamily
  rank,      \* rank[a]: "none", "owner" or "member"
  ticket,    \* ticket[c]: "absent", "open" or "closed"
  to,        \* to[c]: the family c was issued for, or NoFamily
  guest,     \* guest[c]: the account that has redeemed c and not entered yet
  unruly     \* accounts two departures of which overlapped

founderVars == <<founder, founding>>
seatVars == <<seat, rank>>
ticketVars == <<ticket, to, guest>>
houseVars == <<founder, founding, seat, rank, ticket, to, guest, unruly>>

Init ==
  /\ founder = [f \in FamilyIds |-> NoAccount] /\ founding = {}
  /\ seat = [a \in Accounts |-> NoFamily] /\ rank = [a \in Accounts |-> "none"]
  /\ ticket = [c \in Codes |-> "absent"] /\ to = [c \in Codes |-> NoFamily]
  /\ guest = [c \in Codes |-> {}]
  /\ unruly = {}

(* The founder of f sits in it as its owner. *)
Kept(f) ==
  /\ founder[f] # NoAccount
  /\ founder[f] \in unruly \/ (seat[founder[f]] = f /\ rank[founder[f]] = "owner")

Sit(a, f, as) ==
  /\ seat[a] = NoFamily
  /\ seat' = [seat EXCEPT ![a] = f]
  /\ rank' = [rank EXCEPT ![a] = as]

Found(a, f) ==
  /\ founder[f] = NoAccount
  /\ founder' = [founder EXCEPT ![f] = a]
  /\ founding' = founding \cup {f}
  /\ UNCHANGED <<seatVars, ticketVars, unruly>>

Enthrone(f) ==
  /\ f \in founding
  /\ Sit(founder[f], f, "owner")
  /\ founding' = founding \ {f}
  /\ UNCHANGED <<founder, ticketVars, unruly>>

(* The founding of f comes to nothing. *)
Abandon(f) ==
  /\ founding' = founding \ {f}
  /\ UNCHANGED <<founder, seatVars, ticketVars, unruly>>

Offer(c, f) ==
  /\ ticket[c] = "absent" /\ Kept(f)
  /\ ticket' = [ticket EXCEPT ![c] = "open"]
  /\ to' = [to EXCEPT ![c] = f]
  /\ UNCHANGED <<founderVars, seatVars, guest, unruly>>

Redeem(a, c) ==
  /\ ticket[c] = "open"
  /\ ticket' = [ticket EXCEPT ![c] = "closed"]
  /\ guest' = [guest EXCEPT ![c] = {a}]
  /\ UNCHANGED <<founderVars, seatVars, to, unruly>>

Lapse(c) ==
  /\ ticket[c] = "open"
  /\ ticket' = [ticket EXCEPT ![c] = "closed"]
  /\ UNCHANGED <<founderVars, seatVars, to, guest, unruly>>

Enter(a, c) ==
  /\ guest[c] = {a} /\ Kept(to[c])
  /\ Sit(a, to[c], "member")
  /\ guest' = [guest EXCEPT ![c] = {}]
  /\ UNCHANGED <<founderVars, ticket, to, unruly>>

(* The guest of c does not enter: the code is spent. *)
TurnAway(c) ==
  /\ guest' = [guest EXCEPT ![c] = {}]
  /\ UNCHANGED <<founderVars, seatVars, ticket, to, unruly>>

Depart(a) ==
  /\ rank[a] = "member" \/ a \in unruly
  /\ seat' = [seat EXCEPT ![a] = NoFamily]
  /\ rank' = [rank EXCEPT ![a] = "none"]
  /\ UNCHANGED <<founderVars, ticketVars, unruly>>

Overlap(a) ==
  /\ unruly' = unruly \cup {a}
  /\ UNCHANGED <<founderVars, seatVars, ticketVars>>

Next ==
  \/ \E a \in Accounts, f \in FamilyIds : Found(a, f)
  \/ \E f \in FamilyIds : Enthrone(f) \/ Abandon(f)
  \/ \E c \in Codes, f \in FamilyIds : Offer(c, f)
  \/ \E a \in Accounts, c \in Codes : Redeem(a, c) \/ Enter(a, c)
  \/ \E c \in Codes : Lapse(c) \/ TurnAway(c)
  \/ \E a \in Accounts : Depart(a) \/ Overlap(a)

Spec == Init /\ [][Next]_houseVars
===============================================================================
