------------------------- MODULE ClipboardSyncProofs -------------------------
(***************************************************************************)
(* What is proved of ClipboardSync for any number of machines, texts and      *)
(* copies: its types, and that every broadcast is accounted for.              *)
(***************************************************************************)
EXTENDS ClipboardSync, TLAPS

USE ClipboardAssumption

\* What a machine may still broadcast without anything else happening to it: the text
\* on its clipboard, if that is not the last one its daemon knows.
Pending(h) == IF os[h] # NoText /\ os[h] # last[h] THEN 1 ELSE 0

\* The account of a machine: a text that can still be broadcast has been paid for.
Account(h) == broadcasts[h] + Pending(h) <= copied[h] + unseen[h]
Accounts == \A h \in Hosts : Account(h)

AccountsInv == TypeOK /\ Accounts

-----------------------------------------------------------------------------
\* Reading finds a text, not the empty clipboard.
LEMMA FoundIsText ==
  ASSUME TypeOK, NEW h \in Hosts, FindText(h)
  PROVE  os[h] \in Texts
BY DEF TypeOK, FindText, SomeText

\* A broadcast adds messages with a text to machines that exist.
LEMMA BroadcastMail ==
  ASSUME TypeOK, NEW h \in Hosts, ReadAndBroadcast(h), NEW m \in mail'
  PROVE  m.from \in Hosts /\ m.to \in Hosts /\ m.text \in Texts
<1>1. mail' = mail \cup [from : {h}, to : Audience(h), text : {os[h]}, number : {broadcasts[h]}]
  BY DEF ReadAndBroadcast
<1>2. Audience(h) \subseteq Hosts
  BY DEF Audience
<1>3. os[h] \in Texts
  BY FoundIsText DEF ReadAndBroadcast
<1>4. CASE m \in mail
  BY <1>4 DEF TypeOK
<1>5. CASE m \in [from : {h}, to : Audience(h), text : {os[h]}, number : {broadcasts[h]}]
  BY <1>5, <1>2, <1>3
<1> QED BY <1>1, <1>4, <1>5

\* Every step keeps the types, and the messages among the machines.
LEMMA TypesKept ==
  ASSUME TypeOK, [Next]_vars
  PROVE  TypeOK'
<1> USE DEF TypeOK
<1>1. ASSUME NEW h \in Hosts, NEW t \in Texts, Copy(h, t) PROVE TypeOK'
  BY <1>1 DEF Copy
<1>2. ASSUME NEW h \in Hosts, ReadAndBroadcast(h) PROVE TypeOK'
  <2>1. \A m \in mail' : m.from \in Hosts /\ m.to \in Hosts /\ m.text \in Texts
    BY <1>2, BroadcastMail
  <2>2. last' \in [Hosts -> Texts \cup {NoText}]
    BY <1>2 DEF ReadAndBroadcast, FindText
  <2>3. broadcasts' \in [Hosts -> Nat]
    BY <1>2 DEF ReadAndBroadcast
  <2> QED BY <1>2, <2>1, <2>2, <2>3 DEF ReadAndBroadcast
<1>3. ASSUME NEW h \in Hosts, ReadAndFail(h) PROVE TypeOK'
  BY <1>3 DEF ReadAndFail, FindText, Mishap
<1>4. ASSUME NEW h \in Hosts, WindowEnds(h) PROVE TypeOK'
  BY <1>4 DEF WindowEnds
<1>5. ASSUME NEW h \in Hosts, Restart(h) PROVE TypeOK'
  <2>1. Once(os[h]) \in Nat
    BY DEF Once
  <2>2. copied' \in [Hosts -> Nat]
    BY <1>5, <2>1 DEF Restart
  <2>3. mishaps' \in 0..MaxMishaps
    BY <1>5 DEF Restart, Mishap
  <2>4. \A g \in Hosts : armed'[g] => suppressed'[g] # NoText
    BY <1>5 DEF Restart
  <2> QED BY <1>5, <2>2, <2>3, <2>4 DEF Restart
<1>6. ASSUME NEW m \in mail, Write(m) PROVE TypeOK'
  <2>1. m.to \in Hosts /\ m.text \in Texts
    OBVIOUS
  <2>2. os' \in [Hosts -> Texts \cup {NoText}] /\ mishaps' \in 0..MaxMishaps /\ unseen' \in [Hosts -> Nat]
    BY <1>6, <2>1 DEF Write, Mishap
  <2>3. last' \in [Hosts -> Texts \cup {NoText}]
    BY <1>6, <2>1 DEF Write, HashAfterWrite
  <2>4. /\ suppressed' \in [Hosts -> Texts \cup {NoText}] /\ armed' \in [Hosts -> BOOLEAN]
        /\ \A g \in Hosts : armed'[g] => suppressed'[g] # NoText
    BY <1>6, <2>1 DEF Write
  <2> QED BY <1>6, <2>2, <2>3, <2>4 DEF Write
<1>7. ASSUME NEW m \in mail, Lose(m) PROVE TypeOK'
  BY <1>7 DEF Lose
<1>8. CASE UNCHANGED vars
  BY <1>8 DEF vars
<1> QED BY <1>1, <1>2, <1>3, <1>4, <1>5, <1>6, <1>7, <1>8 DEF Next, Read, ReadNothing

\* The account of a machine is kept by what happens at that machine.
LEMMA AccountsKept ==
  ASSUME AccountsInv, [Next]_vars
  PROVE  Accounts'
<1> SUFFICES ASSUME NEW g \in Hosts PROVE Account(g)'
  BY DEF Accounts
<1> USE DEF AccountsInv, TypeOK, Accounts, Account, Pending
<1>1. ASSUME NEW h \in Hosts, NEW t \in Texts, Copy(h, t) PROVE Account(g)'
  BY <1>1 DEF Copy
<1>2. ASSUME NEW h \in Hosts, ReadAndBroadcast(h) PROVE Account(g)'
  BY <1>2 DEF ReadAndBroadcast, FindText, SomeText
<1>3. ASSUME NEW h \in Hosts, ReadAndFail(h) PROVE Account(g)'
  BY <1>3 DEF ReadAndFail, FindText, SomeText
<1>4. ASSUME NEW h \in Hosts, WindowEnds(h) PROVE Account(g)'
  BY <1>4 DEF WindowEnds
<1>5. ASSUME NEW h \in Hosts, Restart(h) PROVE Account(g)'
  BY <1>5 DEF Restart, Once
<1>6. ASSUME NEW m \in mail, Write(m) PROVE Account(g)'
  <2>1. m.to \in Hosts /\ m.text \in Texts
    OBVIOUS
  <2>2. CASE g = m.to
    BY <1>6, <2>1, <2>2 DEF Write, HashAfterWrite
  <2>3. CASE g # m.to
    BY <1>6, <2>1, <2>3 DEF Write
  <2> QED BY <2>2, <2>3
<1>7. ASSUME NEW m \in mail, Lose(m) PROVE Account(g)'
  BY <1>7 DEF Lose
<1>8. CASE UNCHANGED vars
  BY <1>8 DEF vars
<1> QED BY <1>1, <1>2, <1>3, <1>4, <1>5, <1>6, <1>7, <1>8 DEF Next, Read, ReadNothing

LEMMA AccountsHold == Spec => []AccountsInv
<1>1. Init => AccountsInv
  BY DEF Init, AccountsInv, TypeOK, Accounts, Account, Pending, Once
<1>2. AccountsInv /\ [Next]_vars => AccountsInv'
  BY TypesKept, AccountsKept DEF AccountsInv
<1> QED BY <1>1, <1>2, PTL DEF Spec

-----------------------------------------------------------------------------
\* The variables have their types, a suppression always has a text to suppress, and no
\* message is empty, however many machines, texts and copies there are.
THEOREM TypeCorrect == Spec => []TypeOK
BY AccountsHold, PTL DEF AccountsInv

\* No machine broadcasts what it was sent, for any number of machines on any dongles
\* (clipboard.rs:106-114): a text that can still be broadcast was copied, found at a
\* start, or covered by a write that did not show, and was not yet broadcast.
THEOREM NoEcho == Spec => []BroadcastsAccountedFor
<1>1. AccountsInv => BroadcastsAccountedFor
  <2> SUFFICES ASSUME AccountsInv, NEW h \in Hosts
               PROVE  broadcasts[h] <= copied[h] + unseen[h]
    BY DEF BroadcastsAccountedFor
  <2>1. broadcasts[h] + Pending(h) <= copied[h] + unseen[h]
    BY DEF AccountsInv, Accounts, Account
  <2>2. broadcasts[h] \in Nat /\ copied[h] \in Nat /\ unseen[h] \in Nat
    BY DEF AccountsInv, TypeOK
  <2>3. Pending(h) \in {0, 1}
    BY DEF Pending
  <2> QED BY <2>1, <2>2, <2>3
<1> QED BY <1>1, AccountsHold, PTL
=============================================================================
