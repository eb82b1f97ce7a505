--------------------------- MODULE SessionsProofs ---------------------------
(***************************************************************************)
(* Theorems about Sessions for any list of streaming types and any number  *)
(* of starts.  That no session at DCD is left without a trace takes what   *)
(* is on the wire (WireInv: DCD may register a session long after the      *)
(* client has given up), what an answer tells the client of DCD's state    *)
(* (AnswerInv), and that a session the client knows is never asked for     *)
(* again (KnownInv).                                                       *)
(***************************************************************************)
EXTENDS Sessions, TLAPS

\* The client waits for an answer only inside StartStreaming and StopStreaming, and
\* an answered request is not on the wire any more.
WaitInv ==
    /\ waiting = NoRequest => answer = "none"
    /\ answer # "none" => waiting \notin wire
    /\ phase = "starting" =>
          waiting = NoRequest \/ (next \in Entries /\ waiting = Post(Session(next)))
    /\ phase = "stopping" =>
          waiting = NoRequest \/ \E s \in known \ todo : waiting = Delete(s)
    /\ phase \notin {"starting", "stopping"} => waiting = NoRequest

\* A process that was started has its number, and Init has asked for every entry
\* when it returns.
PhaseInv ==
    /\ phase # "down" => life \in Lives
    /\ phase = "running" => next \notin Entries

AnswerInv ==
    \A s \in Asked :
        /\ waiting = Post(s) /\ answer \in {"ok", "nameless"} => s \in server
        /\ waiting = Delete(s) /\ answer = "ok" => s \notin server

KnownInv ==
    /\ phase \in {"down", "stopped"} => known = {}
    /\ \A s \in known : s.life = life /\ s.entry < next /\ Post(s) \notin wire

WireInv ==
    \A s \in Asked :
        /\ Post(s) \in wire =>
              waiting = Post(s) \/ Post(s) \in logged \union nameless \/ s.life \in crashed
        /\ Delete(s) \in wire =>
              s.life <= life /\ (phase \in {"starting", "running"} => s.life < life)

\* StopStreaming: the sessions of its copy that it is done with
StopInv ==
    phase = "stopping" =>
        \A s \in known \ todo : waiting = Delete(s) \/ Delete(s) \in logged \/ s \notin server

\* FLBPluginInit: the entries that it is done with
StartInv ==
    phase \in {"starting", "running"} =>
        \A n \in Entries :
            n < next => Session(n) \in server \/ Post(Session(n)) \in logged

IInv ==
    /\ TypeOK /\ PhaseInv /\ WaitInv /\ AnswerInv
    /\ KnownInv /\ WireInv /\ StopInv /\ StartInv /\ Accounted

(* Requests and sessions are what they are made of. *)

LEMMA RequestsDiffer ==
    ASSUME NEW s \in Asked, NEW t \in Asked
    PROVE  /\ Post(s) # Delete(t)
           /\ Post(s) = Post(t) => s = t
           /\ Delete(s) = Delete(t) => s = t
           /\ Post(s) \in Requests /\ Delete(s) \in Requests
           /\ Post(s).op = "POST" /\ Delete(s).op = "DELETE"
           /\ Post(s).session = s /\ Delete(s).session = s
BY DEF Post, Delete, Requests

LEMMA RequestForms ==
    ASSUME NEW q \in Requests
    PROVE  /\ q.session \in Asked
           /\ q.op = "POST" => q = Post(q.session)
           /\ q.op = "DELETE" => q = Delete(q.session)
BY DEF Post, Delete, Requests

LEMMA SessionForm ==
    ASSUME NEW n \in Entries, life \in Lives, token \in BOOLEAN
    PROVE  Session(n) \in Asked /\ Session(n).life = life /\ Session(n).entry = n
BY DEF Session, Asked

LEMMA PhaseForms ==
    /\ "down" \in Phases /\ "starting" \in Phases /\ "running" \in Phases
    /\ "stopping" \in Phases /\ "stopped" \in Phases /\ "none" \in Answers
BY DEF Phases, Answers

LEMMA ConstantsForm ==
    /\ MaxLives \in Nat /\ Lives = 1..MaxLives
    /\ Len(StreamingTypes) \in Nat /\ Entries = 1..Len(StreamingTypes)
    /\ NoRequest \notin Requests
BY SessionsAssumption DEF Entries, Lives

LEMMA AskedForm ==
    ASSUME NEW s \in Asked
    PROVE  s.life \in Nat /\ s.entry \in Nat
BY ConstantsForm DEF Asked

(* What the client waits for while StartStreaming runs, and that a session keeps its  *)
(* name until the next start.                                                         *)

LEMMA Waiting ==
    ASSUME TypeOK, PhaseInv, WaitInv, phase = "starting", waiting # NoRequest
    PROVE  /\ next \in Entries /\ waiting = Post(Session(next))
           /\ Session(next) \in Asked
           /\ Session(next).life = life /\ Session(next).entry = next
<1>1. next \in Entries /\ waiting = Post(Session(next))
  BY DEF WaitInv
<1>2. life \in Lives /\ token \in BOOLEAN
  BY DEF TypeOK, PhaseInv
<1>. QED  BY <1>1, <1>2, SessionForm

LEMMA SameSessions ==
    ASSUME UNCHANGED <<life, token>>, NEW n
    PROVE  Session(n)' = Session(n)
BY DEF Session

LEMMA InitInv == Init => IInv
<1> SUFFICES ASSUME Init
             PROVE  IInv
    OBVIOUS
<1>1. TypeOK
  <2>1. 1 \in 1..(Len(StreamingTypes) + 1) /\ 0 \in 0..MaxLives
    BY ConstantsForm
  <2>. QED  BY <2>1, PhaseForms DEF Init, TypeOK
<1>2. PhaseInv /\ WaitInv /\ AnswerInv /\ KnownInv /\ WireInv
  BY ConstantsForm, RequestsDiffer DEF Init, PhaseInv, WaitInv, AnswerInv, KnownInv, WireInv
<1>3. StopInv /\ StartInv /\ Accounted
  BY DEF Init, StopInv, StartInv, Accounted
<1>. QED  BY <1>1, <1>2, <1>3 DEF IInv

(* One lemma for each action, with one step for each part of the invariant. *)

LEMMA StartStreamingKeeps ==
    ASSUME IInv, StartStreaming
    PROVE  IInv'
<1> USE ConstantsForm, RequestsDiffer, PhaseForms DEF IInv, StartStreaming, Send, history
<1>1. TypeOK'
  BY SessionForm DEF PhaseInv, TypeOK
<1>2. PhaseInv'
  BY DEF PhaseInv
<1>3. WaitInv'
  BY SameSessions, SessionForm DEF TypeOK, PhaseInv, WaitInv
<1>4. AnswerInv'
  BY DEF AnswerInv
<1>5. KnownInv'
  BY SessionForm DEF PhaseInv, TypeOK, KnownInv
<1>6. WireInv'
  BY SessionForm DEF PhaseInv, TypeOK, WireInv
<1>7. StopInv'
  BY DEF StopInv
<1>8. StartInv'
  <2> SUFFICES ASSUME NEW n \in Entries, n < next
               PROVE  (Session(n) \in server \/ Post(Session(n)) \in logged)'
    BY DEF StartInv
  <2>. QED  BY SameSessions DEF StartInv
<1>9. Accounted'
  BY DEF TypeOK, Accounted
<1>. QED  BY <1>1, <1>2, <1>3, <1>4, <1>5, <1>6, <1>7, <1>8, <1>9

LEMMA RegisteredKeeps ==
    ASSUME IInv, Registered
    PROVE  IInv'
<1> USE ConstantsForm, RequestsDiffer, PhaseForms DEF IInv, Registered, Receive, history
<1>0. /\ next \in Entries /\ waiting = Post(Session(next))
      /\ Session(next) \in Asked
      /\ Session(next).life = life /\ Session(next).entry = next
  BY Waiting DEF WaitInv
<1>1. TypeOK'
  BY <1>0 DEF TypeOK
<1>2. PhaseInv'
  BY DEF PhaseInv
<1>3. WaitInv'
  BY DEF WaitInv
<1>4. AnswerInv'
  BY DEF AnswerInv
<1>5. KnownInv'
  <2>1. \A s \in known : s.life = life /\ s.entry < next /\ Post(s) \notin wire
    BY DEF KnownInv
  <2>2. next < next + 1 /\ \A s \in known : s.entry < next + 1
    BY <2>1, AskedForm DEF TypeOK
  <2>3. Post(Session(next)) \notin wire \/ known' = known
    BY <1>0 DEF WaitInv
  <2>. QED  BY <1>0, <2>1, <2>2, <2>3 DEF KnownInv
<1>6. WireInv'
  BY DEF WaitInv, WireInv
<1>7. StopInv'
  BY DEF StopInv
<1>8. StartInv'
  <2> SUFFICES ASSUME NEW n \in Entries, n < next'
               PROVE  (Session(n) \in server \/ Post(Session(n)) \in logged)'
    BY DEF StartInv
  <2>1. Session(n)' = Session(n)
    BY SameSessions
  <2>2. n < next \/ n = next
    BY <1>0
  <2>3. CASE n < next
    BY <2>1, <2>3 DEF StartInv
  <2>4. CASE n = next
    BY <1>0, <2>1, <2>4 DEF AnswerInv
  <2>. QED  BY <2>2, <2>3, <2>4
<1>9. Accounted'
  BY DEF TypeOK, Accounted
<1>. QED  BY <1>1, <1>2, <1>3, <1>4, <1>5, <1>6, <1>7, <1>8, <1>9

LEMMA RegisteredNamelessKeeps ==
    ASSUME IInv, RegisteredNameless
    PROVE  IInv'
<1> USE ConstantsForm, RequestsDiffer, PhaseForms DEF IInv, RegisteredNameless, Receive, history
<1>0. /\ next \in Entries /\ waiting = Post(Session(next))
      /\ Session(next) \in Asked
      /\ Session(next).life = life /\ Session(next).entry = next
  BY Waiting DEF WaitInv
<1>1. TypeOK'
  <2>1. next' \in 1..(Len(StreamingTypes) + 1)
    BY <1>0
  <2>2. waiting \in Requests
    BY <1>0
  <2>. QED  BY <2>1, <2>2 DEF TypeOK
<1>2. PhaseInv'
  BY DEF PhaseInv
<1>3. WaitInv'
  BY DEF WaitInv
<1>4. AnswerInv'
  BY DEF AnswerInv
<1>5. KnownInv'
  <2>1. \A s \in known : s.life = life /\ s.entry < next /\ Post(s) \notin wire
    BY DEF KnownInv
  <2>2. next < next + 1 /\ \A s \in known : s.entry < next + 1
    BY <2>1, AskedForm DEF TypeOK
  <2>3. Post(Session(next)) \notin wire \/ known' = known
    BY <1>0 DEF WaitInv
  <2>. QED  BY <1>0, <2>1, <2>2, <2>3 DEF KnownInv
<1>6. WireInv'
  BY DEF WireInv
<1>7. StopInv'
  BY DEF StopInv
<1>8. StartInv'
  <2> SUFFICES ASSUME NEW n \in Entries, n < next'
               PROVE  (Session(n) \in server \/ Post(Session(n)) \in logged)'
    BY DEF StartInv
  <2>1. Session(n)' = Session(n)
    BY SameSessions
  <2>2. n < next \/ n = next
    BY <1>0
  <2>3. CASE n < next
    BY <2>1, <2>3 DEF StartInv
  <2>4. CASE n = next
    BY <1>0, <2>1, <2>4 DEF AnswerInv
  <2>. QED  BY <2>2, <2>3, <2>4
<1>9. Accounted'
  BY DEF Accounted
<1>. QED  BY <1>1, <1>2, <1>3, <1>4, <1>5, <1>6, <1>7, <1>8, <1>9

LEMMA StartStreamingFailsKeeps ==
    ASSUME IInv, StartStreamingFails
    PROVE  IInv'
<1> USE ConstantsForm, RequestsDiffer, PhaseForms DEF IInv, StartStreamingFails, Fails, Receive, history
<1>0. /\ next \in Entries /\ waiting = Post(Session(next))
      /\ Session(next) \in Asked
      /\ Session(next).life = life /\ Session(next).entry = next
  BY Waiting DEF WaitInv
<1>1. TypeOK'
  <2>1. next' \in 1..(Len(StreamingTypes) + 1)
    BY <1>0
  <2>2. waiting \in Requests
    BY <1>0
  <2>. QED  BY <2>1, <2>2 DEF TypeOK
<1>2. PhaseInv'
  BY DEF PhaseInv
<1>3. WaitInv'
  BY DEF WaitInv
<1>4. AnswerInv'
  BY DEF AnswerInv
<1>5. KnownInv'
  <2>1. \A s \in known : s.life = life /\ s.entry < next /\ Post(s) \notin wire
    BY DEF KnownInv
  <2>2. next < next + 1 /\ \A s \in known : s.entry < next + 1
    BY <2>1, AskedForm DEF TypeOK
  <2>3. Post(Session(next)) \notin wire \/ known' = known
    BY <1>0 DEF WaitInv
  <2>. QED  BY <1>0, <2>1, <2>2, <2>3 DEF KnownInv
<1>6. WireInv'
  BY DEF WireInv
<1>7. StopInv'
  BY DEF StopInv
<1>8. StartInv'
  <2> SUFFICES ASSUME NEW n \in Entries, n < next'
               PROVE  (Session(n) \in server \/ Post(Session(n)) \in logged)'
    BY DEF StartInv
  <2>1. Session(n)' = Session(n)
    BY SameSessions
  <2>2. n < next \/ n = next
    BY <1>0
  <2>3. CASE n < next
    BY <2>1, <2>3 DEF StartInv
  <2>4. CASE n = next
    BY <1>0, <2>1, <2>4 DEF AnswerInv
  <2>. QED  BY <2>2, <2>3, <2>4
<1>9. Accounted'
  BY DEF Accounted
<1>. QED  BY <1>1, <1>2, <1>3, <1>4, <1>5, <1>6, <1>7, <1>8, <1>9

LEMMA StartedKeeps ==
    ASSUME IInv, Started
    PROVE  IInv'
<1> USE ConstantsForm, RequestsDiffer, PhaseForms DEF IInv, Started, history
<1>1. TypeOK'
  BY DEF TypeOK
<1>2. PhaseInv'
  BY DEF PhaseInv
<1>3. WaitInv'
  BY DEF WaitInv
<1>4. AnswerInv'
  BY DEF AnswerInv
<1>5. KnownInv'
  BY DEF KnownInv
<1>6. WireInv'
  BY DEF WireInv
<1>7. StopInv'
  BY DEF StopInv
<1>8. StartInv'
  <2> SUFFICES ASSUME NEW n \in Entries, n < next
               PROVE  (Session(n) \in server \/ Post(Session(n)) \in logged)'
    BY DEF StartInv
  <2>. QED  BY SameSessions DEF StartInv
<1>9. Accounted'
  BY DEF Accounted
<1>. QED  BY <1>1, <1>2, <1>3, <1>4, <1>5, <1>6, <1>7, <1>8, <1>9

LEMMA DeleteSessionKeeps ==
    ASSUME IInv, DeleteSession
    PROVE  IInv'
<1> USE ConstantsForm, RequestsDiffer, PhaseForms DEF IInv, DeleteSession, Send, history
<1>1. TypeOK'
  BY DEF TypeOK
<1>2. PhaseInv'
  BY DEF PhaseInv
<1>3. WaitInv'
  BY DEF TypeOK, WaitInv
<1>4. AnswerInv'
  BY DEF AnswerInv
<1>5. KnownInv'
  BY DEF TypeOK, KnownInv
<1>6. WireInv'
  BY DEF KnownInv, TypeOK, WireInv
<1>7. StopInv'
  BY DEF TypeOK, StopInv
<1>8. StartInv'
  BY DEF StartInv
<1>9. Accounted'
  BY DEF TypeOK, Accounted
<1>. QED  BY <1>1, <1>2, <1>3, <1>4, <1>5, <1>6, <1>7, <1>8, <1>9

LEMMA DeletedKeeps ==
    ASSUME IInv, Deleted
    PROVE  IInv'
<1> USE ConstantsForm, RequestsDiffer, PhaseForms DEF IInv, Deleted, Receive, history
<1>1. TypeOK'
  BY DEF TypeOK
<1>2. PhaseInv'
  BY DEF PhaseInv
<1>3. WaitInv'
  BY DEF WaitInv
<1>4. AnswerInv'
  BY DEF AnswerInv
<1>5. KnownInv'
  BY DEF KnownInv
<1>6. WireInv'
  BY DEF WaitInv, WireInv
<1>7. StopInv'
  BY DEF AnswerInv, TypeOK, StopInv
<1>8. StartInv'
  BY DEF StartInv
<1>9. Accounted'
  BY DEF WaitInv, TypeOK, Accounted
<1>. QED  BY <1>1, <1>2, <1>3, <1>4, <1>5, <1>6, <1>7, <1>8, <1>9

LEMMA DeleteFailsKeeps ==
    ASSUME IInv, DeleteFails
    PROVE  IInv'
<1> USE ConstantsForm, RequestsDiffer, PhaseForms DEF IInv, DeleteFails, Fails, Receive, history
<1>1. TypeOK'
  BY DEF TypeOK
<1>2. PhaseInv'
  BY DEF PhaseInv
<1>3. WaitInv'
  BY DEF WaitInv
<1>4. AnswerInv'
  BY DEF AnswerInv
<1>5. KnownInv'
  BY DEF KnownInv
<1>6. WireInv'
  BY DEF WireInv
<1>7. StopInv'
  BY DEF StopInv
<1>8. StartInv'
  BY DEF StartInv
<1>9. Accounted'
  BY DEF Accounted
<1>. QED  BY <1>1, <1>2, <1>3, <1>4, <1>5, <1>6, <1>7, <1>8, <1>9

LEMMA StoppedKeeps ==
    ASSUME IInv, Stopped
    PROVE  IInv'
<1> USE ConstantsForm, RequestsDiffer, PhaseForms DEF IInv, Stopped, history
<1>1. TypeOK'
  BY DEF TypeOK
<1>2. PhaseInv'
  BY DEF PhaseInv
<1>3. WaitInv'
  BY DEF WaitInv
<1>4. AnswerInv'
  BY DEF AnswerInv
<1>5. KnownInv'
  BY DEF KnownInv
<1>6. WireInv'
  BY DEF WireInv
<1>7. StopInv'
  BY DEF StopInv
<1>8. StartInv'
  BY DEF StartInv
<1>9. Accounted'
  BY DEF StopInv, TypeOK, Accounted
<1>. QED  BY <1>1, <1>2, <1>3, <1>4, <1>5, <1>6, <1>7, <1>8, <1>9

LEMMA StartKeeps ==
    ASSUME IInv, Start
    PROVE  IInv'
<1> USE ConstantsForm, RequestsDiffer, PhaseForms DEF IInv, Start, history
<1>1. TypeOK'
  <2>1. next' \in 1..(Len(StreamingTypes) + 1) /\ life' \in 0..MaxLives
    BY DEF TypeOK
  <2>. QED  BY <2>1 DEF TypeOK
<1>2. PhaseInv'
  BY DEF TypeOK, PhaseInv
<1>3. WaitInv'
  BY DEF WaitInv
<1>4. AnswerInv'
  BY DEF AnswerInv
<1>5. KnownInv'
  BY DEF KnownInv
<1>6. WireInv'
  <2> SUFFICES ASSUME NEW s \in Asked
               PROVE  /\ Post(s) \in wire => \/ waiting = Post(s)
                                             \/ Post(s) \in logged \union nameless
                                             \/ s.life \in crashed
                      /\ Delete(s) \in wire => s.life < life + 1
    BY AskedForm DEF WireInv, TypeOK
  <2>. QED  BY AskedForm DEF WireInv, TypeOK
<1>7. StopInv'
  BY DEF StopInv
<1>8. StartInv'
  BY DEF StartInv
<1>9. Accounted'
  BY DEF KnownInv, Accounted
<1>. QED  BY <1>1, <1>2, <1>3, <1>4, <1>5, <1>6, <1>7, <1>8, <1>9

LEMMA ExitKeeps ==
    ASSUME IInv, Exit
    PROVE  IInv'
<1> USE ConstantsForm, RequestsDiffer, PhaseForms DEF IInv, Exit, history
<1>1. TypeOK'
  BY DEF TypeOK
<1>2. PhaseInv'
  BY DEF PhaseInv
<1>3. WaitInv'
  BY DEF WaitInv
<1>4. AnswerInv'
  BY DEF AnswerInv
<1>5. KnownInv'
  BY DEF KnownInv
<1>6. WireInv'
  BY DEF WireInv
<1>7. StopInv'
  BY DEF StopInv
<1>8. StartInv'
  BY DEF StartInv
<1>9. Accounted'
  BY DEF Accounted
<1>. QED  BY <1>1, <1>2, <1>3, <1>4, <1>5, <1>6, <1>7, <1>8, <1>9

LEMMA CrashKeeps ==
    ASSUME IInv, Crash
    PROVE  IInv'
<1> USE ConstantsForm, RequestsDiffer, PhaseForms DEF IInv, Crash, Receive, history
<1>1. TypeOK'
  BY DEF PhaseInv, TypeOK
<1>2. PhaseInv'
  BY DEF PhaseInv
<1>3. WaitInv'
  BY DEF WaitInv
<1>4. AnswerInv'
  BY DEF AnswerInv
<1>5. KnownInv'
  BY DEF KnownInv
<1>6. WireInv'
  BY SessionForm DEF WaitInv, PhaseInv, TypeOK, WireInv
<1>7. StopInv'
  BY DEF StopInv
<1>8. StartInv'
  BY DEF StartInv
<1>9. Accounted'
  BY SessionForm DEF KnownInv, WaitInv, PhaseInv, TypeOK, Accounted
<1>. QED  BY <1>1, <1>2, <1>3, <1>4, <1>5, <1>6, <1>7, <1>8, <1>9

LEMMA DCDKeeps ==
    ASSUME IInv, DCD
    PROVE  IInv'
<1> USE ConstantsForm, RequestsDiffer DEF IInv, history
<1>1. PICK request \in wire :
        /\ DCDRegisters(request) \/ DCDRemoves(request) \/ DCDRefuses(request)
        /\ wire' = wire \ {request}
  BY DEF DCD
<1>2. UNCHANGED <<phase, life, token, next, known, todo, lastErr, waiting, history>>
  BY DEF DCD
<1>3. PICK t \in Asked : /\ request.session = t
                         /\ \/ request = Post(t) /\ request.op = "POST"
                            \/ request = Delete(t) /\ request.op = "DELETE"
  BY RequestForms DEF TypeOK, Requests
<1>4. /\ request \in Requests /\ answer' \in Answers
      /\ answer' = answer \/ (request = waiting /\ answer' # "none")
  BY <1>1 DEF TypeOK, DCDRegisters, DCDRemoves, DCDRefuses, Answer, Answers
<1>5. TypeOK'
  BY <1>1, <1>2, <1>3, <1>4 DEF TypeOK, DCDRegisters, DCDRemoves, DCDRefuses
<1>6. PhaseInv' /\ WaitInv'
  <2>1. PhaseInv'
    BY <1>2 DEF PhaseInv
  <2>2. \A n : Session(n)' = Session(n)
    BY <1>2 DEF Session
  <2>. QED  BY <1>1, <1>2, <1>4, <2>1, <2>2 DEF WaitInv
<1>7. KnownInv' /\ WireInv'
  BY <1>1, <1>2 DEF KnownInv, WireInv
<1>8. \A n : Session(n)' = Session(n)
  BY <1>2 DEF Session
\* What DCD may still register is not known, and what it may still remove is of an
\* earlier start, as long as Init or the callbacks run.
<1>9. request = Post(t) => t \notin known
  BY DEF KnownInv
<1>10. request = Delete(t) /\ phase \in {"starting", "running"} => t.life # life
  BY AskedForm DEF WireInv, TypeOK
<1>11. ASSUME NEW n \in Entries, phase \in {"starting", "running"}
       PROVE  Session(n) \in Asked /\ Session(n).life = life
  BY <1>11, SessionForm DEF TypeOK, PhaseInv
<1>12. \A s \in Asked :
         /\ waiting = Post(s) => phase = "starting" /\ s.life = life
         /\ waiting = Delete(s) => s \in known
  BY <1>11 DEF WaitInv, TypeOK
<1>13. CASE DCDRegisters(request)
  <2>1. request = Post(t) /\ server' = server \union {t}
    BY <1>3, <1>13 DEF DCDRegisters
  <2>2. AnswerInv'
    BY <1>2, <1>4, <1>9, <1>12, <2>1 DEF AnswerInv
  <2>3. StopInv'
    BY <1>2, <1>9, <2>1 DEF StopInv
  <2>4. StartInv'
    BY <1>2, <1>8, <2>1 DEF StartInv
  <2>5. Accounted'
    BY <1>2, <2>1 DEF Accounted, WireInv
  <2>. QED  BY <1>5, <1>6, <1>7, <2>2, <2>3, <2>4, <2>5
<1>14. CASE DCDRemoves(request)
  <2>1. request = Delete(t) /\ server' = server \ {t}
    BY <1>3, <1>14 DEF DCDRemoves
  <2>2. answer' = answer \/ answer' \in {"ok", "error"}
    BY <1>14 DEF DCDRemoves, Answer
  <2>3. AnswerInv'
    BY <1>2, <1>4, <1>10, <1>12, <2>1, <2>2 DEF AnswerInv
  <2>4. StopInv'
    BY <1>2, <2>1 DEF StopInv
  <2>5. StartInv'
    BY <1>2, <1>8, <1>10, <1>11, <2>1 DEF StartInv
  <2>6. Accounted'
    BY <1>2, <2>1 DEF Accounted
  <2>. QED  BY <1>5, <1>6, <1>7, <2>3, <2>4, <2>5, <2>6
<1>15. CASE DCDRefuses(request)
  <2>1. server' = server /\ (answer' = answer \/ answer' = "error")
    BY <1>15 DEF DCDRefuses, Answer
  <2>2. AnswerInv'
    BY <1>2, <2>1 DEF AnswerInv
  <2>3. StopInv' /\ StartInv' /\ Accounted'
    BY <1>2, <1>8, <2>1 DEF StopInv, StartInv, Accounted
  <2>. QED  BY <1>5, <1>6, <1>7, <2>2, <2>3
<1>. QED  BY <1>1, <1>13, <1>14, <1>15

LEMMA StutterKeeps ==
    ASSUME IInv, UNCHANGED vars
    PROVE  IInv'
<1>1. \A n : Session(n)' = Session(n)
  BY DEF vars, Session
<1>2. TypeOK' /\ PhaseInv' /\ WaitInv' /\ AnswerInv'
  BY <1>1 DEF IInv, vars, TypeOK, PhaseInv, WaitInv, AnswerInv
<1>3. KnownInv' /\ WireInv' /\ StopInv' /\ StartInv' /\ Accounted'
  BY <1>1 DEF IInv, vars, KnownInv, WireInv, StopInv, StartInv, Accounted
<1>. QED  BY <1>2, <1>3 DEF IInv

\* The invariant is inductive: Init establishes it and every step of the client, of
\* DCD, of Exit and of a crash keeps it.
THEOREM Inductive == Spec => []IInv
<1>1. IInv /\ [Next]_vars => IInv'
  <2> SUFFICES ASSUME IInv, [Next]_vars
               PROVE  IInv'
      OBVIOUS
  <2>1. CASE Start \/ Exit \/ Crash \/ DCD
    BY <2>1, StartKeeps, ExitKeeps, CrashKeeps, DCDKeeps
  <2>2. CASE Client
    BY <2>2, StartStreamingKeeps, RegisteredKeeps, RegisteredNamelessKeeps,
       StartStreamingFailsKeeps, StartedKeeps, DeleteSessionKeeps, DeletedKeeps,
       DeleteFailsKeeps, StoppedKeeps DEF Client
  <2>3. CASE UNCHANGED vars
    BY <2>3, StutterKeeps
  <2>. QED  BY <2>1, <2>2, <2>3 DEF Next
<1>. QED  BY <1>1, InitInv, PTL DEF Spec

\* The state of the client of restapi.go and of DCD keeps its types: next never
\* passes the end of streaming_types, and StopStreaming's copy holds known sessions.
THEOREM TypesHold == Spec => []TypeOK
<1>1. IInv => TypeOK
  BY DEF IInv
<1>. QED  BY <1>1, Inductive, PTL

\* No session is left behind at DCD without a trace, however late DCD handles the
\* requests of StartStreaming and StopStreaming and whenever the process crashes.
THEOREM AccountedHolds == Spec => []Accounted
<1>1. IInv => Accounted
  BY DEF IInv
<1>. QED  BY <1>1, Inductive, PTL

\* A plugin whose FLBPluginInit has returned has a session at DCD or a logged
\* failure for every entry of streaming_types.
THEOREM SubscribedHolds == Spec => []Subscribed
<1>1. IInv => Subscribed
  <2> SUFFICES ASSUME IInv, phase = "running", NEW n \in Entries
               PROVE  Session(n) \in server \/ Post(Session(n)) \in logged
      BY DEF Subscribed
  <2>1. n < next
    BY ConstantsForm DEF IInv, TypeOK, PhaseInv
  <2>. QED  BY <2>1 DEF IInv, StartInv
<1>. QED  BY <1>1, Inductive, PTL
=============================================================================
