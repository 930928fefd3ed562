----------------------------- MODULE Clientele -----------------------------
(***************************************************************************)
(* What the customer records promise, with every operation one atomic      *)
(* step: a phone number means one customer and always the same one, an     *)
(* account belongs to whoever opened it, and a job made with a number is   *)
(* in the history of the customer the number means until the desk corrects *)
(* it.  Module Customers says how the handlers keep it.                    *)
(***************************************************************************)
CONSTANTS
  Customers,    \* the identities a customer can have
  Jobs,
  Phones,
  Emails,
  Nil           \* nobody, no account, no job

VARIABLES
  person,       \* Phones to the customer who books with it, or Nil
  account,      \* Customers to the email they sign in with, or Nil
  history       \* Jobs to their customer and the number they were made with, or Nil

clientele == <<person, account, history>>

Init ==
  /\ person = [p \in Phones |-> Nil]
  /\ account = [c \in Customers |-> Nil]
  /\ history = [j \in Jobs |-> Nil]

Unused(e) == \A c \in Customers : account[c] # e

\* A new number comes with a new customer, who may open an account at once.
Meet(p, c) ==
  /\ person[p] = Nil
  /\ \A q \in Phones : person[q] # c
  /\ person' = [person EXCEPT ![p] = c]

\* An account is opened once, under an address nobody else has.
Open(c, e) ==
  /\ account[c] = Nil
  /\ Unused(e)
  /\ account' = [account EXCEPT ![c] = e]

\* A job is made for a customer, or for whom a number means.
Serve(j, c, p) ==
  /\ history[j] = Nil
  /\ p # Nil => person[p] = c
  /\ history' = [history EXCEPT ![j] = [customer |-> c, number |-> p]]

\* It was another car that was washed, and so another customer's job.
Correct(j, c) ==
  /\ history[j] # Nil
  /\ history' = [history EXCEPT ![j] = [customer |-> c, number |-> Nil]]

Next ==
  \E c \in Customers :
    \/ \E p \in Phones : Meet(p, c) /\ UNCHANGED <<account, history>>
    \/ \E e \in Emails : Open(c, e) /\ UNCHANGED <<person, history>>
    \/ \E p \in Phones, e \in Emails : Meet(p, c) /\ Open(c, e) /\ UNCHANGED history
    \/ \E j \in Jobs, p \in Phones \cup {Nil} : Serve(j, c, p) /\ UNCHANGED <<person, account>>
    \/ \E j \in Jobs : Correct(j, c) /\ UNCHANGED <<person, account>>

Spec == Init /\ [][Next]_clientele
==============================================================================
