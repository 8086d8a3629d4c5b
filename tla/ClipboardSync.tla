---------------------------- MODULE ClipboardSync ----------------------------
(***************************************************************************)
(* The clipboards of several machines kept alike by their daemons: the      *)
(* ClipboardManager of apps/gibberish-daemon/src/clipboard.rs and the part   *)
(* of the loop in main.rs that feeds it (284-290) and asks it (306-349).     *)
(* Messages travel whole, late, in any order, or not at all (ChunkTransfer   *)
(* and MeshFlood show how).  A hash stands for the text it was made from.    *)
(***************************************************************************)
EXTENDS Naturals

CONSTANTS
  Hosts,
  TwoDongles,   \* hosts with a second dongle, by which they hear their own broadcasts
  Texts,        \* what is copied
  NoText,       \* an empty clipboard; the hash [0u8; 32]
  MaxCopies,    \* bound: copies made by users
  MaxMishaps    \* bound: writes that do not show, messages not encrypted, restarts

ASSUME ClipboardAssumption ==
  TwoDongles \subseteq Hosts /\ NoText \notin Texts /\ MaxCopies \in Nat /\ MaxMishaps \in Nat

VARIABLES
  os,          \* host -> what reading its clipboard yields
  last,        \* host -> last_hash
  suppressed,  \* host -> suppressed_hash
  armed,       \* host -> whether suppress_until lies ahead
  mail,        \* messages on their way: [from, to, text, number]
  copies, mishaps,  \* counters against MaxCopies and MaxMishaps
  broadcasts,  \* history: host -> messages it has broadcast
  copied,      \* history: host -> copies of its user, with what its daemon found at its starts
  unseen       \* history: host -> writes that did not show

vars == <<os, last, suppressed, armed, mail, copies, mishaps, broadcasts, copied, unseen>>

Once(t) == IF t = NoText THEN 0 ELSE 1

\* The variables have their types; a suppression always has a text to suppress, and
\* no message is empty.
TypeOK ==
  /\ os \in [Hosts -> Texts \cup {NoText}] /\ last \in [Hosts -> Texts \cup {NoText}]
  /\ suppressed \in [Hosts -> Texts \cup {NoText}]
  /\ armed \in [Hosts -> BOOLEAN] /\ (\A h \in Hosts : armed[h] => suppressed[h] # NoText)
  /\ \A m \in mail : m.from \in Hosts /\ m.to \in Hosts /\ m.text \in Texts
  /\ copies \in 0..MaxCopies /\ mishaps \in 0..MaxMishaps
  /\ broadcasts \in [Hosts -> Nat] /\ copied \in [Hosts -> Nat] /\ unseen \in [Hosts -> Nat]

\* Daemons start on clipboards that may hold something, which they take for a copy.
Init ==
  /\ os \in [Hosts -> Texts \cup {NoText}]
  /\ last = [h \in Hosts |-> NoText] /\ suppressed = [h \in Hosts |-> NoText]
  /\ armed = [h \in Hosts |-> FALSE] /\ mail = {}
  /\ copies = 0 /\ mishaps = 0
  /\ broadcasts = [h \in Hosts |-> 0] /\ unseen = [h \in Hosts |-> 0]
  /\ copied = [h \in Hosts |-> Once(os[h])]

Mishap == mishaps < MaxMishaps /\ mishaps' = mishaps + 1

\* A user copies a text, maybe the one that is there.
Copy(h, t) ==
  /\ copies < MaxCopies /\ copies' = copies + 1
  /\ os' = [os EXCEPT ![h] = t]
  /\ copied' = [copied EXCEPT ![h] = @ + 1]
  /\ UNCHANGED <<last, suppressed, armed, mail, mishaps, broadcasts, unseen>>

\* Faulty variant: the suppression does not end with its window.
SuppressedForever(h) == os[h] = suppressed[h]

Suppressed(h) == armed[h] /\ os[h] = suppressed[h]

\* Who hears a broadcast of h.  poll_rx ignores what the dongle itself transmits, but
\* the daemon sends by its first dongle and reads from all (main.rs:127-162, 234, 329).
Audience(h) == IF h \in TwoDongles THEN Hosts ELSE Hosts \ {h}

\* Faulty variant: an empty clipboard is a text.
AnyText(h) == TRUE

SomeText(h) == os[h] # NoText

\* read_clipboard finds a new text ...
FindText(h) ==
  /\ SomeText(h) /\ ~Suppressed(h) /\ os[h] # last[h]
  /\ last' = [last EXCEPT ![h] = os[h]]
\* ... which is broadcast,
ReadAndBroadcast(h) ==
  /\ FindText(h)
  /\ broadcasts' = [broadcasts EXCEPT ![h] = @ + 1]
  /\ mail' = mail \cup [from : {h}, to : Audience(h), text : {os[h]}, number : {broadcasts[h]}]
  /\ UNCHANGED <<os, suppressed, armed, copies, mishaps, copied, unseen>>
\* ... or fails to be encrypted, for want of a message id (main.rs:345-347).
ReadAndFail(h) ==
  /\ FindText(h) /\ Mishap
  /\ UNCHANGED <<os, suppressed, armed, mail, copies, broadcasts, copied, unseen>>

\* Faulty variant: only the window keeps a written text from being read back.
HashAfterWriteKept(h, t) == last[h]

HashAfterWrite(h, t) == t

\* write_clipboard arms the suppression and then tries the clipboards of the
\* system; the one that is read may not show the text.
Write(m) ==
  LET h == m.to IN
  /\ mail' = mail \ {m}
  /\ suppressed' = [suppressed EXCEPT ![h] = m.text]
  /\ armed' = [armed EXCEPT ![h] = TRUE]
  /\ last' = [last EXCEPT ![h] = HashAfterWrite(h, m.text)]
  /\ \/ /\ os' = [os EXCEPT ![h] = m.text]
        /\ UNCHANGED <<mishaps, unseen>>
     \/ /\ Mishap /\ unseen' = [unseen EXCEPT ![h] = @ + 1]
        /\ UNCHANGED os
  /\ UNCHANGED <<copies, broadcasts, copied>>

WindowEnds(h) ==
  /\ armed[h] /\ armed' = [armed EXCEPT ![h] = FALSE]
  /\ UNCHANGED <<os, last, suppressed, mail, copies, mishaps, broadcasts, copied, unseen>>

Lose(m) ==
  /\ mail' = mail \ {m}
  /\ UNCHANGED <<os, last, suppressed, armed, copies, mishaps, broadcasts, copied, unseen>>

\* The daemon is restarted; what the clipboard holds is new to it.
Restart(h) ==
  /\ Mishap
  /\ last' = [last EXCEPT ![h] = NoText] /\ suppressed' = [suppressed EXCEPT ![h] = NoText]
  /\ armed' = [armed EXCEPT ![h] = FALSE]
  /\ copied' = [copied EXCEPT ![h] = @ + Once(os[h])]
  /\ UNCHANGED <<os, mail, copies, broadcasts, unseen>>

\* read_clipboard finds nothing new.
ReadNothing(h) ==
  /\ ~SomeText(h) \/ Suppressed(h) \/ os[h] = last[h]
  /\ UNCHANGED vars

Read(h) == ReadAndBroadcast(h) \/ ReadAndFail(h)
Next ==
  \/ \E h \in Hosts : (\E t \in Texts : Copy(h, t)) \/ Read(h) \/ ReadNothing(h) \/ WindowEnds(h) \/ Restart(h)
  \/ \E m \in mail : Write(m) \/ Lose(m)

Spec == Init /\ [][Next]_vars

\* The loop reads the clipboard on every round, and 500 ms pass.
FairSpec == Spec /\ \A h \in Hosts : WF_vars(Read(h)) /\ WF_vars(WindowEnds(h))

-----------------------------------------------------------------------------
\* No machine broadcasts what it was sent: every broadcast is accounted for by a
\* copy of its own user, by a start of its daemon on a clipboard that held
\* something, or by a write that did not show (clipboard.rs:106-114, R15).
BroadcastsAccountedFor == \A h \in Hosts : broadcasts[h] <= copied[h] + unseen[h]

\* A text that differs from the last one is noticed in the end, even if the user
\* copies what is being suppressed: the window delays it, but never swallows it.
Noticed ==
  \A h \in Hosts : (os[h] # NoText /\ os[h] # last[h]) ~> (os[h] = last[h])

\* Echoes are halted completely (plan SC5): a machine broadcasts no more than its
\* user copied and its daemon found at its starts.
EchoesHalted == \A h \in Hosts : broadcasts[h] <= copied[h]

\* A broadcast comes back to nobody (plan SC5): no daemon writes what it sent itself
\* over a copy that its user has made since.
NoEchoOverCopy ==
  [][\A m \in mail : Write(m) /\ m.from = m.to => os[m.to] = m.text]_vars
=============================================================================
