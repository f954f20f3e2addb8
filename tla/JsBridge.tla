------------------------------ MODULE JsBridge ------------------------------
(***************************************************************************)
(* The React Native module (wrappers/react-native/cpp): core threads ask   *)
(* JavaScript questions and block on the answer, while JavaScript is one   *)
(* thread that also calls into the driver.                                 *)
(*                                                                         *)
(* A question is a PendingRequest object, entered in a table under a       *)
(* request id, posted to the JavaScript thread and answered by `respond',  *)
(* which knows the id alone; its thread takes what the object holds by the *)
(* deadline, and then removes the id.  A handler may be asynchronous: its  *)
(* answer can come after the deadline, and after later questions.          *)
(* Blocking calls of the driver run on threads of their own (runAsync);    *)
(* feedBytes runs on the JavaScript thread, and with a completion method   *)
(* that JavaScript registered it reaches the matcher from there: that      *)
(* thread then waits for itself until the deadline.                        *)
(*                                                                         *)
(* Pointers of jobs become tokens in JavaScript.  The tables outlive the   *)
(* drivers; Recycle says whether a later driver's jobs are allocated at    *)
(* addresses an earlier one used.                                          *)
(*                                                                         *)
(* NextId_Reused and Destroy_Inline are faulty variants, kept to show that *)
(* the properties can fail.                                                *)
(***************************************************************************)
EXTENDS Naturals, Sequences, FiniteSets

CONSTANTS CoreThreads,  \* workers of the printers
          Pointers,     \* addresses of jobs
          JsMatcher,    \* BOOLEAN: a JavaScript completion method on a JavaScript transport
          Recycle,      \* BOOLEAN, see above
          MaxAsks       \* questions in all

VARIABLES js,           \* the JavaScript thread: "loop", or blocked in "destroy"
          jsTasks,      \* the CallInvoker's queue
          handlers,     \* questions whose handler has not answered yet
          thread,       \* thread -> where it is, its request id and object
          table,        \* ModuleState::pending: request id -> object
          nextId,       \* nextRequestId
          asked,        \* PendingRequest objects made
          answer,       \* object -> the question its answer was given to, 0 if none
          mounted,      \* the runtime is there
          driver,       \* the driver: "live", "joining", "destroyed"
          generation,   \* drivers created
          jobTokens,    \* pointer -> token
          given         \* <<generation, pointer, token>> told to JavaScript

jsVars == <<js, jsTasks, handlers>>
askVars == <<thread, table, nextId, asked, answer>>
tokenVars == <<generation, jobTokens, given>>
vars == <<jsVars, askVars, mounted, driver, tokenVars>>

Threads == CoreThreads \cup {"js"}
Idle == [at |-> "running", id |-> 0, object |-> 0]

Init == /\ js = "loop" /\ jsTasks = <<>> /\ handlers = {}
        /\ thread = [t \in Threads |-> Idle]
        /\ table = <<>> /\ nextId = 1 /\ asked = 0 /\ answer = <<>>
        /\ mounted = TRUE /\ driver = "live" /\ generation = 1
        /\ jobTokens = <<>> /\ given = {}

\* A thread is inside ask from its entry in the table to the removal.  It does not stay
\* there, also when the handler never settles and when the runtime has been torn down.
InQuestion(t) == thread[t].at \in {"entered", "waiting", "leaving"}
JsFree == js = "loop" /\ ~InQuestion("js")

-----------------------------------------------------------------------------
(* ask: the thread waits for JavaScript *)

Without(f, i) == [k \in DOMAIN f \ {i} |-> f[k]]

\* The transport's connect, write and close, a fence, a matcher, a formatter: a core
\* thread asks until it is joined; the JavaScript thread itself when it feeds a matcher.
\* The id is taken and the request entered under one lock.
NextId_Reused == Cardinality(DOMAIN table) + 1
NextId == nextId
ask(t) ==
  LET object == asked + 1 IN
  /\ thread[t].at = "running" /\ asked < MaxAsks
  /\ t = "js" => JsMatcher /\ mounted /\ driver = "live" /\ js = "loop"
  /\ nextId' = nextId + 1 /\ asked' = object
  /\ table' = [k \in DOMAIN table \cup {NextId} |-> IF k = NextId THEN object ELSE table[k]]
  /\ answer' = Append(answer, 0)
  /\ thread' = [thread EXCEPT ![t] = [at |-> "entered", id |-> NextId, object |-> object]]
  /\ UNCHANGED <<jsVars, mounted, driver, tokenVars>>

\* postToSink: what is asked travels with the id.
Post(t) ==
  /\ thread[t].at = "entered"
  /\ jsTasks' = Append(jsTasks, [id |-> thread[t].id, question |-> thread[t].object])
  /\ thread' = [thread EXCEPT ![t].at = "waiting"]
  /\ UNCHANGED <<js, handlers, table, nextId, asked, answer, mounted, driver, tokenVars>>

\* The wait ends with the answer its object holds, or at kJsAnswerTimeoutMs with the
\* registration's own failure; only then does the request leave the table.
Wake(t) ==
  /\ thread[t].at = "waiting"
  /\ thread' = [thread EXCEPT ![t].at = "leaving"]
  /\ UNCHANGED <<jsVars, table, nextId, asked, answer, mounted, driver, tokenVars>>
AskReturns(t) ==
  /\ thread[t].at = "leaving"
  /\ thread' = [thread EXCEPT ![t] = Idle]
  /\ table' = Without(table, thread[t].id)
  /\ UNCHANGED <<jsVars, nextId, asked, answer, mounted, driver, tokenVars>>
Asks(t) == Post(t) \/ Wake(t) \/ AskReturns(t)

-----------------------------------------------------------------------------
(* The JavaScript thread *)

\* postToSink's task: the sink starts the handler, unless the runtime has gone.
RunTask ==
  /\ JsFree /\ jsTasks # <<>>
  /\ jsTasks' = Tail(jsTasks)
  /\ handlers' = IF mounted THEN handlers \cup {Head(jsTasks)} ELSE handlers
  /\ UNCHANGED <<js, askVars, mounted, driver, tokenVars>>

\* The object is looked up by its id; whoever gave up has taken the id out of the table.
respond(h) ==
  /\ JsFree /\ mounted /\ h \in handlers
  /\ handlers' = handlers \ {h}
  /\ answer' = IF h.id \in DOMAIN table
               THEN [answer EXCEPT ![table[h.id]] = h.question] ELSE answer
  /\ UNCHANGED <<js, jsTasks, thread, table, nextId, asked, mounted, driver, tokenVars>>

\* ~PrinterDriverModule
Unmount ==
  /\ mounted /\ JsFree
  /\ mounted' = FALSE /\ handlers' = {}
  /\ UNCHANGED <<js, jsTasks, askVars, driver, tokenVars>>

\* destroy goes through runAsync: the JavaScript thread is back in its loop at once.
Destroy_Inline == js' = "destroy"
Destroy == js' = js
destroy ==
  /\ JsFree /\ mounted /\ driver = "live"
  /\ driver' = "joining" /\ Destroy
  /\ UNCHANGED <<jsTasks, handlers, askVars, mounted, tokenVars>>

\* pd_destroy joins each worker once it is out of its callbacks.
Join(t) ==
  /\ driver = "joining" /\ t # "js" /\ thread[t].at = "running"
  /\ thread' = [thread EXCEPT ![t].at = "joined"]
  /\ UNCHANGED <<jsVars, table, nextId, asked, answer, mounted, driver, tokenVars>>
Destroyed ==
  /\ driver = "joining" /\ \A t \in CoreThreads : thread[t].at = "joined"
  /\ driver' = "destroyed" /\ js' = "loop"
  /\ UNCHANGED <<jsTasks, handlers, askVars, mounted, tokenVars>>

\* create, a second time.
create ==
  /\ JsFree /\ mounted /\ driver = "destroyed" /\ generation = 1
  /\ generation' = 2 /\ driver' = "live"
  /\ thread' = [t \in Threads |-> IF t \in CoreThreads THEN Idle ELSE thread[t]]
  /\ UNCHANGED <<jsVars, table, nextId, asked, answer, mounted, jobTokens, given>>

\* tokenForJob, from a print on the JavaScript thread or an event on a worker: the token
\* of the pointer, or the next one minted.
TokenFor(p) == IF p \in DOMAIN jobTokens THEN jobTokens[p]
               ELSE Cardinality(DOMAIN jobTokens) + 1
Allocated(p) == \A g \in given : (g[1] # generation /\ g[2] = p) => Recycle
tokenForJob(p) ==
  /\ driver # "destroyed" /\ Allocated(p)
  /\ given' = given \cup {<<generation, p, TokenFor(p)>>}
  /\ jobTokens' = [q \in DOMAIN jobTokens \cup {p} |->
                     IF q = p THEN TokenFor(p) ELSE jobTokens[q]]
  /\ given' # given
  /\ UNCHANGED <<jsVars, askVars, mounted, driver, generation>>

-----------------------------------------------------------------------------
Next == \/ \E t \in Threads : ask(t) \/ Asks(t) \/ Join(t)
        \/ \E h \in handlers : respond(h)
        \/ RunTask \/ Unmount \/ destroy \/ Destroyed \/ create
        \/ \E p \in Pointers : tokenForJob(p)

Spec == Init /\ [][Next]_vars

-----------------------------------------------------------------------------
(***************************************************************************)
(* What a thread takes for the answer was computed from its own question:  *)
(* `respond' with the id of a question whose thread gave up, however late, *)
(* never answers a later one, of this thread or of another.                *)
(***************************************************************************)
AnswersItsOwnQuestion == \A o \in DOMAIN answer : answer[o] \in {0, o}

(***************************************************************************)
(* PrinterDriverModule.h, THREADING: a JavaScript thread parked inside the *)
(* driver could be the one a core thread waits for.  The calls that block  *)
(* run elsewhere; what is left is feedBytes with a matcher of JavaScript's *)
(* own, so while a core thread waits the JavaScript thread is in its loop  *)
(* or inside that one question, which ends by itself.                      *)
(***************************************************************************)
ParkedOnlyInMatcher ==
  (\E t \in CoreThreads : InQuestion(t)) => JsFree \/ (js = "loop" /\ InQuestion("js"))

(***************************************************************************)
(* Tokens are identities: one job has one token, whichever thread met it   *)
(* first, and two jobs never share one.                                    *)
(***************************************************************************)
TokenIsIdentity ==
  \A a, b \in given : (a[1] = b[1] /\ a[2] = b[2]) <=> (a[3] = b[3])
=============================================================================
