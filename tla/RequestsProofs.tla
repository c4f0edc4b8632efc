--------------------------- MODULE RequestsProofs ---------------------------
(***************************************************************************)
(* RequestsHold of Requests, for any two people, texts and bounds: what    *)
(* was kept of somebody accepted is acknowledged or about to be.           *)
(***************************************************************************)
EXTENDS Requests, TLAPS

\* Letters of kind "text" name a text, and so does the one being handled past
\* its check.
NamesText(l) == l.kind = "text" => l.text \in Texts

RequestsInv ==
    /\ RequestsTypeOK
    /\ \A l \in mail : NamesText(l)
    /\ \A p \in Persons : handling[p] # Idle =>
          /\ NamesText(handling[p].letter)
          /\ handling[p].at # "check" => handling[p].letter.kind = "text"
    /\ AcceptedIsAnswered

LEMMA OtherIsPerson ==
    ASSUME NEW p \in Persons PROVE OtherPerson(p) \in Persons
  BY RequestsAssumption DEF OtherPerson

\* A letter written on the sender's session is a letter.
LEMMA MailIsLetter ==
    ASSUME RequestsTypeOK, NEW p \in Persons, NEW kind \in Kinds, NEW t \in Texts \union {0},
           using[p] # 0
    PROVE  Mail(p, kind, t) \in RequestLetters
           /\ Mail(p, kind, t).kind = kind /\ Mail(p, kind, t).text = t
  <1>1. using[p] \in 1 .. MaxOpened
    BY RequestsAssumption DEF RequestsTypeOK
  <1> QED
    BY <1>1, OtherIsPerson DEF Mail, RequestLetters

LEMMA MailedFromKeeps ==
    ASSUME RequestsInv, NEW p \in Persons, NEW kind \in Kinds \ {"text"}, NEW t \in Texts \union {0}
    PROVE  MailedFrom(p, kind, t) \subseteq RequestLetters
           /\ \A l \in MailedFrom(p, kind, t) : NamesText(l)
  <1>1. CASE using[p] = 0
    BY <1>1 DEF MailedFrom, RequestsInv, RequestsTypeOK
  <1>2. CASE using[p] # 0
    BY <1>2, MailIsLetter DEF MailedFrom, RequestsInv, RequestsTypeOK, NamesText
  <1> QED
    BY <1>1, <1>2

LEMMA HandlingFacts ==
    ASSUME RequestsInv, NEW p \in Persons, handling[p] # Idle
    PROVE  /\ handling[p].letter \in RequestLetters
           /\ handling[p].at \in {"check", "requester", "store", "answer"}
           /\ handling[p].letter.text \in Texts \union {0}
           /\ handling[p].letter.kind \in Kinds
           /\ handling[p].at # "check" => handling[p].letter.text \in Texts
  <1>1. handling[p] \in [at : {"check", "requester", "store", "answer"}, letter : RequestLetters]
    BY DEF RequestsInv, RequestsTypeOK, Handlings
  <1> QED
    BY <1>1 DEF RequestsInv, RequestLetters, NamesText

\* A step that writes letters other than texts and leaves every task where it is.
LEMMA QuietKeeps ==
    ASSUME RequestsInv, RequestsTypeOK', AcceptedIsAnswered', handling' = handling,
           \A l \in mail' : NamesText(l)
    PROVE  RequestsInv'
  BY DEF RequestsInv, NamesText

\* The user's commands.
LEMMA ForgetKeeps ==
    ASSUME RequestsInv, NEW p \in Persons, Forget(p), mail' \subseteq RequestLetters,
           sessionsOpened' = sessionsOpened, handling' \in [Persons -> Handlings],
           \A q \in Persons : q # p => handling'[q] = handling[q]
    PROVE  RequestsTypeOK' /\ AcceptedIsAnswered'
  <1>1. RequestsTypeOK'
    <2>1. wiping' \in [Persons -> BOOLEAN]
      BY DEF Forget, RequestsInv, RequestsTypeOK
    <2>2. standing' \in [Persons -> Standings] /\ using' \in [Persons -> 0 .. MaxOpened]
      BY RequestsAssumption DEF Forget, RequestsInv, RequestsTypeOK, Standings
    <2>3. reading' \in [Persons -> SUBSET (1 .. MaxOpened)]
      BY DEF Forget, RequestsInv, RequestsTypeOK
    <2>4. /\ box' \in [Persons -> SUBSET Texts] /\ kept' \in [Persons -> SUBSET Texts]
          /\ answered' \in [Persons -> SUBSET Texts] /\ accepting' \in [Persons -> SUBSET Texts]
      BY DEF Forget, RequestsInv, RequestsTypeOK
    <2> QED
      BY <2>1, <2>2, <2>3, <2>4 DEF RequestsInv, RequestsTypeOK
  <1>2. AcceptedIsAnswered'
    <2> SUFFICES ASSUME NEW q \in Persons, standing'[q] # "incoming", NEW t \in kept'[q]
                 PROVE  \/ t \in answered'[q] \union accepting'[q]
                        \/ handling'[q].at = "answer" /\ handling'[q].letter.text = t
      BY DEF AcceptedIsAnswered
    <2>1. q # p
      BY DEF Forget, RequestsInv, RequestsTypeOK
    <2>2. /\ kept'[q] = kept[q] /\ answered'[q] = answered[q] /\ accepting'[q] = accepting[q]
          /\ standing'[q] = standing[q]
      BY <2>1 DEF Forget, RequestsInv, RequestsTypeOK
    <2> QED
      BY <2>1, <2>2 DEF RequestsInv, AcceptedIsAnswered
  <1> QED
    BY <1>1, <1>2

LEMMA AcceptKeeps ==
    ASSUME RequestsInv, NEW p \in Persons, AcceptNow(p),
           UNCHANGED <<wiping, using, reading, box, kept, answered, handling, mail, sessionsOpened>>
    PROVE  RequestsInv'
  <1>1. RequestsTypeOK'
    BY DEF AcceptNow, RequestsInv, RequestsTypeOK, Standings
  <1>2. AcceptedIsAnswered'
    BY DEF AcceptNow, RequestsInv, RequestsTypeOK, AcceptedIsAnswered
  <1> QED
    BY <1>1, <1>2, QuietKeeps DEF RequestsInv

LEMMA AddCardKeeps ==
    ASSUME RequestsInv, NEW p \in Persons, AddCard(p)
    PROVE  RequestsInv'
  <1>0. UNCHANGED <<wiping, using, reading, box, kept, answered, handling, mail, sessionsOpened>>
    BY DEF AddCard
  <1>1. CASE AcceptNow(p)
    BY <1>0, <1>1, AcceptKeeps
  <1>2. CASE /\ standing[p] = "stranger"
             /\ standing' = [standing EXCEPT ![p] = "outgoing"] /\ UNCHANGED accepting
    <2>1. RequestsTypeOK'
      BY <1>0, <1>2 DEF RequestsInv, RequestsTypeOK, Standings
    <2>2. AcceptedIsAnswered'
      BY <1>0, <1>2 DEF RequestsInv, RequestsTypeOK, AcceptedIsAnswered
    <2> QED
      BY <1>0, <2>1, <2>2, QuietKeeps DEF RequestsInv
  <1> QED
    BY <1>1, <1>2 DEF AddCard, Known

LEMMA DeleteKeeps ==
    ASSUME RequestsInv, NEW p \in Persons, DeclineOrDelete(p) \/ DeleteForBoth(p)
    PROVE  RequestsInv'
  <1>0. UNCHANGED <<handling, mail, sessionsOpened>>
    BY DEF DeclineOrDelete, DeleteForBoth
  <1>1. CASE Forget(p)
    BY <1>0, <1>1, ForgetKeeps, QuietKeeps DEF RequestsInv, RequestsTypeOK
  <1>2. CASE /\ box' = [box EXCEPT ![p] = {}] /\ kept' = [kept EXCEPT ![p] = {}]
             /\ answered' = [answered EXCEPT ![p] = {}]
             /\ wiping' = [wiping EXCEPT ![p] = TRUE]
             /\ UNCHANGED <<standing, using, reading, accepting>>
    <2>1. RequestsTypeOK'
      BY <1>0, <1>2 DEF RequestsInv, RequestsTypeOK
    <2>2. AcceptedIsAnswered'
      BY <1>0, <1>2 DEF RequestsInv, RequestsTypeOK, AcceptedIsAnswered
    <2> QED
      BY <1>0, <2>1, <2>2, QuietKeeps DEF RequestsInv
  <1> QED
    BY <1>1, <1>2 DEF DeclineOrDelete, DeleteForBoth

\* Steps that only write: a text for the box, a letter for the network.
LEMMA WritingKeeps ==
    ASSUME RequestsInv,
           UNCHANGED <<standing, wiping, reading, kept, answered, handling, accepting>>,
           box' \in [Persons -> SUBSET Texts], using' \in [Persons -> 0 .. MaxOpened],
           sessionsOpened' \in 0 .. MaxOpened,
           mail' \subseteq RequestLetters, \A l \in mail' : NamesText(l)
    PROVE  RequestsInv'
  <1>1. RequestsTypeOK'
    BY DEF RequestsInv, RequestsTypeOK
  <1>2. AcceptedIsAnswered'
    BY DEF RequestsInv, AcceptedIsAnswered
  <1> QED
    BY <1>1, <1>2, QuietKeeps

LEMMA WriteAndFlushKeep ==
    ASSUME RequestsInv, NEW p \in Persons, NEW t \in Texts,
           WriteText(p, t) \/ EraseText(p, t) \/ FlushText(p, t)
    PROVE  RequestsInv'
  <1>0. /\ UNCHANGED <<standing, wiping, reading, kept, answered, handling, accepting>>
        /\ using' = using /\ sessionsOpened' = sessionsOpened
    BY DEF WriteText, EraseText, FlushText
  <1>1. box' \in [Persons -> SUBSET Texts]
    BY DEF WriteText, EraseText, FlushText, RequestsInv, RequestsTypeOK
  <1>2. mail' \subseteq RequestLetters /\ \A l \in mail' : NamesText(l)
    <2>1. CASE mail' = mail
      BY <2>1 DEF RequestsInv, RequestsTypeOK
    <2>2. CASE /\ using[p] # 0
               /\ \E kind \in {"text", "erase"} : mail' = mail \union {Mail(p, kind, t)}
      BY <2>2, MailIsLetter DEF RequestsInv, RequestsTypeOK, NamesText, Kinds
    <2> QED
      BY <2>1, <2>2 DEF WriteText, EraseText, FlushText
  <1> QED
    BY <1>0, <1>1, <1>2, WritingKeeps DEF RequestsInv, RequestsTypeOK

LEMMA OpenSessionKeeps ==
    ASSUME RequestsInv, NEW p \in Persons, OpenSession(p)
    PROVE  RequestsInv'
  <1> DEFINE n == sessionsOpened + 1
             hello == [to |-> OtherPerson(p), kind |-> "hello", text |-> 0, on |-> n, init |-> TRUE]
  <1>0. /\ UNCHANGED <<standing, wiping, box, kept, answered, handling, accepting>>
        /\ sessionsOpened' = n /\ using' = [using EXCEPT ![p] = n]
        /\ reading' = [reading EXCEPT ![p] = @ \union {n}] /\ mail' = mail \union {hello}
    BY DEF OpenSession
  <1>1. n \in 1 .. MaxOpened
    BY RequestsAssumption DEF OpenSession, RequestsInv, RequestsTypeOK
  <1>2. hello \in RequestLetters /\ hello.kind = "hello"
    BY <1>1, OtherIsPerson DEF RequestLetters, Kinds
  <1> HIDE DEF n, hello
  <1>3. using' \in [Persons -> 0 .. MaxOpened] /\ sessionsOpened' \in 0 .. MaxOpened
    BY <1>0, <1>1 DEF RequestsInv, RequestsTypeOK
  <1>4. reading' \in [Persons -> SUBSET (1 .. MaxOpened)]
    BY <1>0, <1>1 DEF RequestsInv, RequestsTypeOK
  <1>5. mail' \subseteq RequestLetters /\ \A l \in mail' : NamesText(l)
    BY <1>0, <1>2 DEF RequestsInv, RequestsTypeOK, NamesText
  <1>6. RequestsTypeOK'
    BY <1>0, <1>3, <1>4, <1>5 DEF RequestsInv, RequestsTypeOK
  <1>7. AcceptedIsAnswered'
    BY <1>0 DEF RequestsInv, AcceptedIsAnswered
  <1> QED
    BY <1>0, <1>5, <1>6, <1>7, QuietKeeps

LEMMA SendWipeKeeps ==
    ASSUME RequestsInv, NEW p \in Persons, SendWipe(p)
    PROVE  RequestsInv'
  <1>0. Forget(p) /\ UNCHANGED <<handling, sessionsOpened>>
    BY DEF SendWipe
  <1>1. mail' \subseteq RequestLetters /\ \A l \in mail' : NamesText(l)
    <2>1. CASE mail' = mail
      BY <2>1 DEF RequestsInv, RequestsTypeOK
    <2>2. CASE using[p] # 0 /\ mail' = mail \union {Mail(p, "wipe", 0)}
      BY <2>2, MailIsLetter DEF RequestsInv, RequestsTypeOK, NamesText, Kinds
    <2> QED
      BY <2>1, <2>2 DEF SendWipe
  <1>2. handling' \in [Persons -> Handlings] /\ \A q \in Persons : q # p => handling'[q] = handling[q]
    BY <1>0 DEF RequestsInv, RequestsTypeOK
  <1> QED
    BY <1>0, <1>1, <1>2, ForgetKeeps, QuietKeeps

LEMMA AcceptAcksKeeps ==
    ASSUME RequestsInv, NEW p \in Persons, NEW t \in Texts, AcceptAcks(p, t)
    PROVE  RequestsInv'
  <1>0. /\ UNCHANGED <<standing, wiping, using, reading, box, kept, handling, sessionsOpened>>
        /\ accepting' = [accepting EXCEPT ![p] = @ \ {t}]
        /\ answered' = [answered EXCEPT ![p] = @ \union {t}]
        /\ mail' = MailedFrom(p, "ack", t)
    BY DEF AcceptAcks
  <1>1. mail' \subseteq RequestLetters /\ \A l \in mail' : NamesText(l)
    BY <1>0, MailedFromKeeps DEF Kinds
  <1>2. RequestsTypeOK'
    BY <1>0, <1>1 DEF RequestsInv, RequestsTypeOK
  <1>3. AcceptedIsAnswered'
    BY <1>0 DEF RequestsInv, RequestsTypeOK, AcceptedIsAnswered
  <1> QED
    BY <1>0, <1>1, <1>2, <1>3, QuietKeeps

\* A step of the task that handles a letter of p.
LEMMA TaskKeeps ==
    ASSUME RequestsInv, NEW p \in Persons, NEW h \in Handlings,
           handling' = [handling EXCEPT ![p] = h],
           h # Idle => NamesText(h.letter) /\ (h.at # "check" => h.letter.kind = "text"),
           RequestsTypeOK', AcceptedIsAnswered', \A l \in mail' : NamesText(l)
    PROVE  RequestsInv'
  <1>1. \A q \in Persons : handling'[q] = IF q = p THEN h ELSE handling[q]
    BY DEF RequestsInv, RequestsTypeOK
  <1>2. ASSUME NEW q \in Persons, handling'[q] # Idle
        PROVE  /\ NamesText(handling'[q].letter)
               /\ handling'[q].at # "check" => handling'[q].letter.kind = "text"
    BY <1>1, <1>2 DEF RequestsInv
  <1>3. \A q \in Persons : (handling[q] # Idle)' =>
          /\ NamesText(handling[q].letter)'
          /\ (handling[q].at # "check" => handling[q].letter.kind = "text")'
    BY <1>2 DEF NamesText
  <1>4. \A l \in mail' : NamesText(l)'
    BY DEF NamesText
  <1> QED
    BY <1>3, <1>4 DEF RequestsInv

\* AcceptedIsAnswered when only p's part changed, p's task had nothing to
\* answer, and nothing was put into p's chat.
LEMMA AnsweredAt ==
    ASSUME RequestsInv, NEW p \in Persons, handling[p].at # "answer",
           \A q \in Persons \ {p} :
              /\ kept'[q] = kept[q] /\ answered'[q] = answered[q] /\ accepting'[q] = accepting[q]
              /\ handling'[q] = handling[q] /\ standing'[q] = standing[q],
           standing'[p] # "incoming" => standing[p] # "incoming",
           \A t \in kept'[p] : /\ t \in kept[p]
                               /\ t \in answered[p] \union accepting[p] =>
                                     t \in answered'[p] \union accepting'[p]
    PROVE  AcceptedIsAnswered'
  <1> SUFFICES ASSUME NEW q \in Persons, standing'[q] # "incoming", NEW t \in kept'[q]
               PROVE  \/ t \in answered'[q] \union accepting'[q]
                      \/ handling'[q].at = "answer" /\ handling'[q].letter.text = t
    BY DEF AcceptedIsAnswered
  <1>1. CASE q = p
    BY <1>1 DEF RequestsInv, AcceptedIsAnswered
  <1>2. CASE q # p
    BY <1>2 DEF RequestsInv, AcceptedIsAnswered
  <1> QED
    BY <1>1, <1>2

LEMMA IdleFact == Idle \in Handlings /\ Idle.at = "idle"
  BY DEF Idle, Handlings

LEMMA TakeLetterKeeps ==
    ASSUME RequestsInv, NEW p \in Persons, NEW l \in mail, TakeLetter(p, l)
    PROVE  RequestsInv'
  <1> DEFINE h == [at |-> "check", letter |-> l]
  <1>0. /\ UNCHANGED <<wiping, box, kept, answered, accepting, sessionsOpened>>
        /\ mail' = mail \ {l} /\ handling[p] = Idle
    BY DEF TakeLetter
  <1>1. l \in RequestLetters /\ NamesText(l) /\ l.on \in 1 .. MaxOpened
    BY DEF RequestsInv, RequestsTypeOK, RequestLetters
  <1>2. h \in Handlings /\ h.at = "check" /\ h.letter = l
    BY <1>1 DEF Handlings
  <1> HIDE DEF h
  <1>3. PICK g \in {h, Idle} : handling' = [handling EXCEPT ![p] = g]
    <2>1. handling' = [handling EXCEPT ![p] = h] \/ handling' = handling
      BY DEF TakeLetter, h
    <2>2. handling' = handling => handling' = [handling EXCEPT ![p] = Idle]
      BY <1>0 DEF RequestsInv, RequestsTypeOK
    <2> QED
      BY <2>1, <2>2
  <1>4. g \in Handlings /\ (g # Idle => g = h)
    BY <1>2, <1>3, IdleFact
  <1>5. /\ standing' \in [Persons -> Standings]
        /\ \A q \in Persons : standing'[q] # "incoming" => standing'[q] = standing[q]
        /\ \A q \in Persons \ {p} : standing'[q] = standing[q]
    BY DEF TakeLetter, RequestsInv, RequestsTypeOK, Standings
  <1>6. using' \in [Persons -> 0 .. MaxOpened]
    BY <1>1 DEF TakeLetter, RequestsInv, RequestsTypeOK
  <1>7. reading' \in [Persons -> SUBSET (1 .. MaxOpened)]
    BY <1>1 DEF TakeLetter, RequestsInv, RequestsTypeOK
  <1>8. /\ handling' \in [Persons -> Handlings]
        /\ \A q \in Persons \ {p} : handling'[q] = handling[q]
    BY <1>3, <1>4 DEF RequestsInv, RequestsTypeOK
  <1>9. RequestsTypeOK'
    BY <1>0, <1>5, <1>6, <1>7, <1>8 DEF RequestsInv, RequestsTypeOK
  <1>10. AcceptedIsAnswered'
    BY <1>0, <1>5, <1>8, IdleFact, AnsweredAt
  <1>11. \A m \in mail' : NamesText(m)
    BY <1>0 DEF RequestsInv
  <1> QED
    BY <1>1, <1>2, <1>3, <1>4, <1>9, <1>10, <1>11, TaskKeeps

\* A check that ends the task without touching the chat, or that goes on to
\* the commit.
LEMMA CheckKeeps ==
    ASSUME RequestsInv, NEW p \in Persons, Check(p)
    PROVE  RequestsInv'
  <1> DEFINE l == handling[p].letter
  <1>0. handling[p].at = "check" /\ sessionsOpened' = sessionsOpened
    BY DEF Check
  <1>1. handling[p] # Idle /\ l \in RequestLetters /\ l.text \in Texts \union {0} /\ NamesText(l)
    <2>1. handling[p] # Idle
      BY <1>0, IdleFact
    <2> QED
      BY <2>1, HandlingFacts DEF RequestsInv
  <1>2. CASE /\ UNCHANGED <<standing, wiping, using, reading, box, kept, answered, accepting, mail>>
             /\ handling' = [handling EXCEPT ![p] = Idle]
    <2>1. handling' \in [Persons -> Handlings] /\ \A q \in Persons \ {p} : handling'[q] = handling[q]
      BY <1>2, IdleFact DEF RequestsInv, RequestsTypeOK
    <2>2. RequestsTypeOK'
      BY <1>0, <1>2, <2>1 DEF RequestsInv, RequestsTypeOK
    <2>3. AcceptedIsAnswered'
      BY <1>0, <1>2, <2>1, AnsweredAt
    <2> QED
      BY <1>2, <2>2, <2>3, IdleFact, TaskKeeps DEF RequestsInv
  <1>3. CASE Forget(p) /\ handling' = [handling EXCEPT ![p] = Idle] /\ mail' = mail
    <2>1. handling' \in [Persons -> Handlings] /\ \A q \in Persons : q # p => handling'[q] = handling[q]
      BY <1>3, IdleFact DEF RequestsInv, RequestsTypeOK
    <2>2. RequestsTypeOK' /\ AcceptedIsAnswered'
      BY <1>0, <1>3, <2>1, ForgetKeeps DEF RequestsInv, RequestsTypeOK
    <2> QED
      BY <1>3, <2>2, IdleFact, TaskKeeps DEF RequestsInv
  <1>4. CASE EraseAndConfirm(p, l.text) /\ handling' = [handling EXCEPT ![p] = Idle]
    <2>0. /\ kept' = [kept EXCEPT ![p] = @ \ {l.text}]
          /\ answered' = [answered EXCEPT ![p] = @ \ {l.text}]
          /\ accepting' = [accepting EXCEPT ![p] = @ \ {l.text}]
          /\ mail' = MailedFrom(p, "erased", l.text)
          /\ UNCHANGED <<standing, wiping, using, reading, box>>
      BY <1>4 DEF EraseAndConfirm
    <2>1. mail' \subseteq RequestLetters /\ \A m \in mail' : NamesText(m)
      BY <1>1, <2>0, MailedFromKeeps DEF Kinds
    <2>2. handling' \in [Persons -> Handlings] /\ \A q \in Persons \ {p} : handling'[q] = handling[q]
      BY <1>4, IdleFact DEF RequestsInv, RequestsTypeOK
    <2> HIDE DEF l
    <2>3. RequestsTypeOK'
      BY <1>0, <2>0, <2>1, <2>2 DEF RequestsInv, RequestsTypeOK
    <2>4. /\ \A q \in Persons \ {p} : /\ kept'[q] = kept[q] /\ answered'[q] = answered[q]
                                      /\ accepting'[q] = accepting[q]
          /\ kept'[p] = kept[p] \ {l.text} /\ answered'[p] = answered[p] \ {l.text}
          /\ accepting'[p] = accepting[p] \ {l.text}
      BY <2>0 DEF RequestsInv, RequestsTypeOK
    <2>5. AcceptedIsAnswered'
      BY <1>0, <2>0, <2>2, <2>4, AnsweredAt
    <2> QED
      BY <1>4, <2>1, <2>3, <2>5, IdleFact, TaskKeeps
  <1>5. CASE /\ l.kind \in {"hello", "text", "ack", "erased"}
             /\ standing' = [standing EXCEPT ![p] =
                                 IF @ = "outgoing" /\ l.kind # "erased" THEN "none" ELSE @]
             /\ IF l.kind = "text"
                THEN handling' = [handling EXCEPT ![p] =
                         [at |-> IF standing[p] = "incoming" THEN "requester" ELSE "store", letter |-> l]]
                ELSE handling' = [handling EXCEPT ![p] = Idle]
             /\ box' = IF l.kind = "ack" /\ standing[p] # "incoming"
                       THEN [box EXCEPT ![p] = @ \ {l.text}] ELSE box
             /\ UNCHANGED <<wiping, using, reading, kept, answered, accepting, mail>>
    <2> DEFINE g == IF l.kind = "text"
                    THEN [at |-> IF standing[p] = "incoming" THEN "requester" ELSE "store", letter |-> l]
                    ELSE Idle
    <2>1. handling' = [handling EXCEPT ![p] = g]
      BY <1>5
    <2>2. g \in Handlings
      BY <1>1, IdleFact DEF Handlings
    <2>3. g # Idle => g.letter = l /\ l.kind = "text"
      OBVIOUS
    <2> HIDE DEF g
    <2>4. handling' \in [Persons -> Handlings] /\ \A q \in Persons \ {p} : handling'[q] = handling[q]
      BY <2>1, <2>2 DEF RequestsInv, RequestsTypeOK
    <2>5. /\ standing' \in [Persons -> Standings]
          /\ \A q \in Persons \ {p} : standing'[q] = standing[q]
          /\ standing'[p] # "incoming" => standing[p] # "incoming"
      BY <1>5 DEF RequestsInv, RequestsTypeOK, Standings
    <2>6. box' \in [Persons -> SUBSET Texts]
      BY <1>5 DEF RequestsInv, RequestsTypeOK
    <2>7. RequestsTypeOK'
      BY <1>0, <1>5, <2>4, <2>5, <2>6 DEF RequestsInv, RequestsTypeOK
    <2>8. AcceptedIsAnswered'
      BY <1>0, <1>5, <2>4, <2>5, AnsweredAt
    <2> QED
      BY <1>1, <1>5, <2>1, <2>2, <2>3, <2>7, <2>8, TaskKeeps DEF RequestsInv
  <1> QED
    BY <1>2, <1>3, <1>4, <1>5 DEF Check

LEMMA CommitKeeps ==
    ASSUME RequestsInv, NEW p \in Persons, Commit(p)
    PROVE  RequestsInv'
  <1> DEFINE l == handling[p].letter
             g == IF standing[p] \in {"stranger", "incoming"} THEN Idle ELSE [at |-> "answer", letter |-> l]
  <1>0. /\ handling[p].at \in {"requester", "store"}
        /\ UNCHANGED <<standing, wiping, using, reading, box, answered, accepting, mail, sessionsOpened>>
        /\ handling' = [handling EXCEPT ![p] = g]
        /\ \/ kept' = kept
           \/ kept' = [kept EXCEPT ![p] = @ \union {l.text}] /\ standing[p] # "stranger"
    BY DEF Commit, Known
  <1>1. handling[p] # Idle
    BY <1>0, IdleFact
  <1>2. l \in RequestLetters /\ l.text \in Texts /\ l.kind = "text"
    BY <1>0, <1>1, HandlingFacts DEF RequestsInv
  <1>3. g \in Handlings
    BY <1>2, IdleFact DEF Handlings
  <1>4. /\ g # Idle => g.letter = l
        /\ standing[p] \notin {"stranger", "incoming"} => g.at = "answer" /\ g.letter = l
    OBVIOUS
  <1> HIDE DEF g, l
  <1>5. handling' \in [Persons -> Handlings] /\ handling'[p] = g
        /\ \A q \in Persons \ {p} : handling'[q] = handling[q]
    BY <1>0, <1>3 DEF RequestsInv, RequestsTypeOK
  <1>6. kept' \in [Persons -> SUBSET Texts] /\ \A q \in Persons \ {p} : kept'[q] = kept[q]
    BY <1>0, <1>2 DEF RequestsInv, RequestsTypeOK
  <1>7. RequestsTypeOK'
    BY <1>0, <1>5, <1>6 DEF RequestsInv, RequestsTypeOK
  <1>8. AcceptedIsAnswered'
    <2>1. CASE standing[p] \in {"stranger", "incoming"}
      <3>1. standing[p] = "incoming" \/ kept' = kept
        BY <2>1, <1>0
      <3> QED
        BY <3>1, <1>0, <1>5, <1>6 DEF RequestsInv, AcceptedIsAnswered
    <2>2. CASE standing[p] \notin {"stranger", "incoming"}
      <3>1. g.at = "answer" /\ g.letter.text = l.text
        BY <2>2, <1>4
      <3>2. \A t \in kept'[p] : t \in kept[p] \/ t = l.text
        BY <1>0 DEF RequestsInv, RequestsTypeOK
      <3> QED
        BY <2>2, <3>1, <3>2, <1>0, <1>5, <1>6 DEF RequestsInv, AcceptedIsAnswered
    <2> QED
      BY <2>1, <2>2
  <1> QED
    BY <1>0, <1>2, <1>3, <1>4, <1>7, <1>8, TaskKeeps DEF RequestsInv, NamesText

LEMMA AnswerKeeps ==
    ASSUME RequestsInv, NEW p \in Persons, Answer(p)
    PROVE  RequestsInv'
  <1> DEFINE l == handling[p].letter
  <1>0. /\ handling[p].at = "answer" /\ handling' = [handling EXCEPT ![p] = Idle]
        /\ answered' = IF l.text \in kept[p] THEN [answered EXCEPT ![p] = @ \union {l.text}] ELSE answered
        /\ mail' = mail \/ mail' = MailedFrom(p, "ack", l.text)
        /\ UNCHANGED <<standing, wiping, using, reading, box, kept, accepting, sessionsOpened>>
    BY DEF Answer
  <1>1. handling[p] # Idle
    BY <1>0, IdleFact
  <1>2. l.text \in Texts
    BY <1>0, <1>1, HandlingFacts
  <1>3. mail' \subseteq RequestLetters /\ \A m \in mail' : NamesText(m)
    <2>1. CASE mail' = mail
      BY <2>1 DEF RequestsInv, RequestsTypeOK
    <2>2. CASE mail' = MailedFrom(p, "ack", l.text)
      BY <2>2, <1>2, MailedFromKeeps DEF Kinds
    <2> QED
      BY <1>0, <2>1, <2>2
  <1>4. handling' \in [Persons -> Handlings] /\ \A q \in Persons \ {p} : handling'[q] = handling[q]
    BY <1>0, IdleFact DEF RequestsInv, RequestsTypeOK
  <1>5. /\ answered' \in [Persons -> SUBSET Texts]
        /\ \A q \in Persons \ {p} : answered'[q] = answered[q]
        /\ answered[p] \subseteq answered'[p] /\ (l.text \in kept[p] => l.text \in answered'[p])
    BY <1>0, <1>2 DEF RequestsInv, RequestsTypeOK
  <1>6. RequestsTypeOK'
    BY <1>0, <1>3, <1>4, <1>5 DEF RequestsInv, RequestsTypeOK
  <1>7. AcceptedIsAnswered'
    <2> SUFFICES ASSUME NEW q \in Persons, standing[q] # "incoming", NEW t \in kept[q]
                 PROVE  \/ t \in answered'[q] \union accepting[q]
                        \/ handling'[q].at = "answer" /\ handling'[q].letter.text = t
      BY <1>0 DEF AcceptedIsAnswered
    <2>1. CASE q = p
      BY <2>1, <1>5 DEF RequestsInv, AcceptedIsAnswered
    <2>2. CASE q # p
      BY <2>2, <1>4, <1>5 DEF RequestsInv, AcceptedIsAnswered
    <2> QED
      BY <2>1, <2>2
  <1> QED
    BY <1>0, <1>3, <1>6, <1>7, IdleFact, TaskKeeps

LEMMA ExpiryKeeps ==
    ASSUME RequestsInv, LetterExpires
    PROVE  RequestsInv'
  <1>0. /\ UNCHANGED <<standing, wiping, using, reading, box, kept, answered, handling, accepting, sessionsOpened>>
        /\ mail' \subseteq mail
    BY DEF LetterExpires
  <1> QED
    BY <1>0, WritingKeeps DEF RequestsInv, RequestsTypeOK

LEMMA RequestsStep ==
    ASSUME RequestsInv, RequestsNext PROVE RequestsInv'
  <1>1. ASSUME NEW p \in Persons, AcceptRequest(p) PROVE RequestsInv'
    BY <1>1, AcceptKeeps DEF AcceptRequest
  <1> QED
    BY <1>1, AddCardKeeps, DeleteKeeps, WriteAndFlushKeep, OpenSessionKeeps, SendWipeKeeps,
       AcceptAcksKeeps, TakeLetterKeeps, CheckKeeps, CommitKeeps, AnswerKeeps, ExpiryKeeps
    DEF RequestsNext

\* RequestsHold for any two people, texts and sessions: however acceptance,
\* refusal, deletion and letters interleave, a text in an accepted chat has
\* been acknowledged or the task that will is under way (accept_request_now
\* and persist_incoming of core/src/core.rs).
THEOREM AcceptedTextsAnswered == RequestsSpec => []RequestsHold
  <1>1. RequestsInit => RequestsInv
    <2> SUFFICES ASSUME RequestsInit PROVE RequestsInv
      OBVIOUS
    <2>1. RequestsTypeOK
      BY RequestsAssumption, IdleFact DEF RequestsInit, RequestsTypeOK, Standings
    <2> QED
      BY <2>1 DEF RequestsInit, RequestsInv, AcceptedIsAnswered
  <1>2. RequestsInv /\ [RequestsNext]_reqVars => RequestsInv'
    <2>1. ASSUME RequestsInv, UNCHANGED reqVars PROVE RequestsInv'
      BY <2>1, WritingKeeps DEF reqVars, RequestsInv, RequestsTypeOK
    <2> QED
      BY <2>1, RequestsStep
  <1>3. RequestsInv => RequestsHold
    BY DEF RequestsInv, RequestsHold
  <1> QED
    BY <1>1, <1>2, <1>3, PTL DEF RequestsSpec
=============================================================================
