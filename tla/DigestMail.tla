----------------------------- MODULE DigestMail -----------------------------
(***************************************************************************)
(* The digest by e-mail (internal/digestmail): every half hour the worker  *)
(* lists the subscribers whose last mail is older than their cooldown,     *)
(* has one digest written, and for each sends the mail and then stores the *)
(* time.  The admin may have a digest sent to any address; that mail       *)
(* leaves no trace.                                                        *)
(*                                                                         *)
(* Times are ages; beyond the longest cooldown they are all alike.         *)
(***************************************************************************)
EXTENDS Integers

CONSTANTS
  Subscriber, Nobody,
  Cooldown         \* of "daily" and of "weekly"

Frequency == {"off", "daily", "weekly"}

ASSUME DigestAssumption ==
  /\ Cooldown \in [{"daily", "weekly"} -> Nat \ {0}]
  /\ Cooldown["daily"] <= Cooldown["weekly"]
  /\ Nobody \notin Subscriber

VARIABLES
  freq,        \* user_email_digest_prefs.frequency
  lastSent,    \* age of last_sent_at; -1: NULL
  mailPc,      \* "down", "idle", "writing", "sending", "mark"
  recipients,  \* those of the due users this tick has not come to
  addressee,   \* who was just sent the mail
  received,    \* history: age of the last digest a user got by subscription
  unmarked,    \* history: users whose last mail was never stored
  shortest     \* history: the most frequent schedule since that mail

mailVars == <<freq, lastSent, mailPc, recipients, addressee, received, unmarked, shortest>>
mailHistory == <<received, unmarked, shortest>>

MaxAge   == Cooldown["weekly"]
MailAges == -1..MaxAge
Ages(f)  == [u \in Subscriber |-> IF f[u] \in {-1, MaxAge} THEN f[u] ELSE f[u] + 1]

ListEmailDigestDue ==
  {u \in Subscriber : /\ freq[u] # "off"
                      /\ lastSent[u] = -1 \/ lastSent[u] >= Cooldown[freq[u]]}

MailStart == mailPc = "down" /\ mailPc' = "idle"
             /\ UNCHANGED <<freq, lastSent, recipients, addressee, mailHistory>>

MailStop ==
  /\ mailPc # "down" /\ mailPc' = "down" /\ recipients' = {} /\ addressee' = Nobody
  /\ unmarked' = unmarked \cup (IF mailPc = "mark" THEN {addressee} ELSE {})
  /\ UNCHANGED <<freq, lastSent, received, shortest>>

\* Somebody is due.
MailTick ==
  /\ mailPc = "idle" /\ ListEmailDigestDue # {}
  /\ mailPc' = "writing" /\ recipients' = ListEmailDigestDue
  /\ UNCHANGED <<freq, lastSent, addressee, mailHistory>>

\* The one digest of this tick is written, in up to 90 seconds, or cannot be:
\* then nobody gets one, and the next tick tries again.
GenerateDigest ==
  /\ mailPc = "writing"
  /\ \/ mailPc' = "sending" /\ recipients' = recipients
     \/ mailPc' = "idle" /\ recipients' = {}
  /\ UNCHANGED <<freq, lastSent, addressee, mailHistory>>

SendMail(u) ==
  /\ mailPc = "sending" /\ u \in recipients
  /\ recipients' = recipients \ {u} /\ mailPc' = "mark" /\ addressee' = u
  /\ received' = [received EXCEPT ![u] = 0]
  /\ unmarked' = unmarked \ {u}
  /\ shortest' = [shortest EXCEPT ![u] = freq[u]]
  /\ UNCHANGED <<freq, lastSent>>

\* No address, or Resend answers an error: the others still get theirs.
SendFails(u) ==
  /\ mailPc = "sending" /\ u \in recipients
  /\ recipients' = recipients \ {u}
  /\ UNCHANGED <<freq, lastSent, mailPc, addressee, mailHistory>>

MarkEmailDigestSent ==
  /\ mailPc = "mark" /\ mailPc' = "sending" /\ addressee' = Nobody
  /\ \/ lastSent' = [lastSent EXCEPT ![addressee] = 0] /\ unmarked' = unmarked
     \/ lastSent' = lastSent /\ unmarked' = unmarked \cup {addressee}
  /\ UNCHANGED <<freq, recipients, received, shortest>>

MailTickEnds == mailPc = "sending" /\ recipients = {} /\ mailPc' = "idle"
                /\ UNCHANGED <<freq, lastSent, recipients, addressee, mailHistory>>

Sooner(f, g) == IF "daily" \in {f, g} THEN "daily"
                ELSE IF "weekly" \in {f, g} THEN "weekly" ELSE "off"

\* Variant: INSERT OR REPLACE, which forgets last_sent_at.
ReplaceEmailDigestPref(u, f) ==
  /\ freq' = [freq EXCEPT ![u] = f] /\ lastSent' = [lastSent EXCEPT ![u] = -1]
  /\ shortest' = [shortest EXCEPT ![u] = Sooner(@, f)]
  /\ UNCHANGED <<mailPc, recipients, addressee, received, unmarked>>

PutEmailDigestPref(u, f) ==
  /\ freq' = [freq EXCEPT ![u] = f]
  /\ shortest' = [shortest EXCEPT ![u] = Sooner(@, f)]
  /\ UNCHANGED <<lastSent, mailPc, recipients, addressee, received, unmarked>>

MailTimePasses ==
  /\ lastSent' = Ages(lastSent) /\ received' = Ages(received)
  /\ UNCHANGED <<freq, mailPc, recipients, addressee, unmarked, shortest>>

MailInit ==
  /\ freq = [u \in Subscriber |-> "off"] /\ shortest = freq
  /\ lastSent = [u \in Subscriber |-> -1] /\ received = lastSent
  /\ mailPc = "down" /\ recipients = {} /\ addressee = Nobody /\ unmarked = {}

MailNext ==
  \/ MailStart \/ MailStop \/ MailTick \/ GenerateDigest \/ MarkEmailDigestSent \/ MailTickEnds
  \/ MailTimePasses
  \/ \E u \in Subscriber : \/ SendMail(u) \/ SendFails(u)
                           \/ \E f \in Frequency : PutEmailDigestPref(u, f)

-----------------------------------------------------------------------------
\* Every variable of the digest keeps its type; a mail is marked for somebody.
MailTypeOK ==
  /\ freq \in [Subscriber -> Frequency] /\ shortest \in [Subscriber -> Frequency]
  /\ lastSent \in [Subscriber -> MailAges] /\ received \in [Subscriber -> MailAges]
  /\ mailPc \in {"down", "idle", "writing", "sending", "mark"}
  /\ recipients \subseteq Subscriber /\ unmarked \subseteq Subscriber
  /\ addressee \in Subscriber \cup {Nobody}
  /\ mailPc = "mark" <=> addressee # Nobody

\* Two digests for one subscriber are a cooldown apart, whatever the schedule
\* is changed to in between and however often the process restarts: the
\* cooldown of the most frequent schedule since the first of them.  The one
\* exception is a mail whose time was never stored.
DigestsSpaced ==
  [][\A u \in Subscriber :
       /\ addressee # u /\ addressee' = u /\ received[u] # -1 /\ u \notin unmarked
       => received[u] >= Cooldown[shortest[u]]]_mailVars

\* Who stays subscribed gets digests for ever.
SubscribedIsMailed ==
  \A u \in Subscriber : []<>(freq[u] = "off" \/ received[u] = 0)

-----------------------------------------------------------------------------
(* What the theorems of WorkersProofs rest on *)

\* The most frequent schedule since the last mail is no rarer than the present.
ShortestCounts ==
  \A u \in Subscriber : freq[u] # "off" => shortest[u] \in {freq[u], "daily"}

\* A mail whose time was stored is no younger than that time.
MarkedIsNoYounger ==
  \A u \in Subscriber \ unmarked :
    received[u] # -1 /\ addressee # u => lastSent[u] # -1 /\ lastSent[u] <= received[u]

\* Who is on the list of a tick was due by every schedule since the last mail,
\* and gets one mail of it.
ListedIsDue ==
  /\ addressee \notin recipients
  /\ \A u \in recipients :
       shortest[u] # "off" /\ (lastSent[u] = -1 \/ lastSent[u] >= Cooldown[shortest[u]])

MailInv == MailTypeOK /\ ShortestCounts /\ MarkedIsNoYounger /\ ListedIsDue

=============================================================================
