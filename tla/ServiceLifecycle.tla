-------------------------- MODULE ServiceLifecycle --------------------------
(***************************************************************************)
(* The program (cmd/hoomail): it opens the database and its listeners,     *)
(* serves in a goroutine per service, and on a signal or a Serve that      *)
(* fails shuts the services down at once under one deadline, before the    *)
(* deferred Close of the database.                                         *)
(*                                                                         *)
(* The POP3 service is Pop3Server's.  HTTP has one connection, a request   *)
(* that calls the store or an event stream, which ends when the hub is     *)
(* closed (EventHub!ClosedStreamEnds).  http.Server is external: Serve     *)
(* tracks every connection that it accepts; Shutdown closes the listener,  *)
(* starts the registered functions, waits for Serve to return and then for *)
(* the connections, so that the time between Accept and tracking is not    *)
(* seen and is left out.  SMTP is served and shut down as POP3 is, with    *)
(* closing, a count of handlers and a wait for it, and is not repeated;    *)
(* its messages arrive as Deliver.                                         *)
(***************************************************************************)
EXTENDS Pop3Server

VARIABLES
    main,       \* where run() is
    bound,      \* listeners opened so far
    failed,     \* errorsChannel holds an unexpected error that run() may still take
    cause,      \* run() has taken it
    expired,    \* the deadline of the shutdown has passed
    loop,       \* http.Serve: "idle", "accepting", "deaf" (its listener is closed), "returned"
    stop,       \* http.Shutdown: "no", "waiting", "nil", "error"
    web,        \* the HTTP connection: "none", "request", "stream"
    hubClosed,  \* events.Close has run
    db,         \* the database: "none", "open", "closed"
    result      \* what run() returns

runVars == <<main, bound, cause, db, result>>
httpVars == <<loop, stop, web, hubClosed>>
allVars == <<vars, runVars, httpVars, failed, expired>>

LifecycleInit ==
    /\ Init
    /\ main = "opening" /\ bound = 0 /\ db = "none" /\ result = "none"
    /\ failed = FALSE /\ cause = FALSE /\ expired = FALSE
    /\ loop = "idle" /\ stop = "no" /\ web = "none" /\ hubClosed = FALSE

-----------------------------------------------------------------------------
(* run() *)

OpenStore ==
    /\ main = "opening"
    /\ \/ main' = "listening" /\ db' = "open" /\ UNCHANGED result
       \/ main' = "exited" /\ result' = "open" /\ UNCHANGED db
    /\ UNCHANGED <<vars, httpVars, bound, cause, failed, expired>>

\* net.Listen for SMTP, POP3 and HTTP; one that fails closes the earlier ones.
Listen ==
    /\ main = "listening"
    /\ \/ /\ bound' = bound + 1
          /\ main' = IF bound' = 3 THEN "serving" ELSE main
          /\ UNCHANGED <<db, result>>
       \/ bound' = 0 /\ db' = "closed" /\ main' = "exited" /\ result' = "listen"
    /\ UNCHANGED <<vars, httpVars, cause, failed, expired>>

\* The select: a signal, or the result of a Serve, which before the shutdown can
\* only be an error that is not isExpectedClose.  errorsChannel is not read again.
Leave ==
    /\ main = "serving"
    /\ \/ cause' = FALSE
       \/ failed /\ cause' = TRUE
    /\ main' = "stopping" /\ failed' = FALSE
    /\ UNCHANGED <<vars, httpVars, bound, db, result, expired>>

\* Mutant: the first result ends the wait.
CollectFirst ==
    /\ main = "stopping"
    /\ stop \in {"nil", "error"} \/ sd \in {"drained", "expired"}
    /\ main' = "closing"
    /\ result' = IF cause THEN "serve"
                 ELSE IF stop = "error" THEN "http"
                 ELSE IF sd = "expired" THEN "pop3" ELSE "ok"
    /\ UNCHANGED <<vars, httpVars, bound, cause, db, failed, expired>>

\* shutdownServices has every result.  The error of HTTP goes first.
Collect ==
    /\ main = "stopping"
    /\ stop \in {"nil", "error"} /\ sd \in {"drained", "expired"}
    /\ main' = "closing"
    /\ result' = IF cause THEN "serve"
                 ELSE IF stop = "error" THEN "http"
                 ELSE IF sd = "expired" THEN "pop3" ELSE "ok"
    /\ UNCHANGED <<vars, httpVars, bound, cause, db, failed, expired>>

\* The deferred data.Close, and then the end of the process.
CloseStore ==
    /\ main = "closing"
    /\ db' = "closed" /\ main' = "closed"
    /\ UNCHANGED <<vars, httpVars, bound, cause, result, failed, expired>>

Exit ==
    /\ main = "closed"
    /\ main' = "exited"
    /\ UNCHANGED <<vars, httpVars, bound, cause, db, result, failed, expired>>

\* The ten seconds are over.
Deadline ==
    /\ main = "stopping" /\ ~expired
    /\ expired' = TRUE
    /\ UNCHANGED <<vars, httpVars, runVars, failed>>

-----------------------------------------------------------------------------
(* http.Serve, its connection, and http.Shutdown. *)

Up == main \in {"serving", "stopping", "closing", "closed"}

\* A Serve that finds the server shut down closes its listener and returns.
HttpStart ==
    /\ Up /\ loop = "idle"
    /\ loop' = IF stop = "no" THEN "accepting" ELSE "returned"
    /\ UNCHANGED <<vars, runVars, stop, web, hubClosed, failed, expired>>

HttpAccept ==
    /\ loop = "accepting" /\ web = "none"
    /\ web' \in {"request", "stream"}
    /\ UNCHANGED <<vars, runVars, loop, stop, hubClosed, failed, expired>>

\* Accept fails: the listener was closed, or broke.
HttpAcceptFails ==
    /\ loop \in {"accepting", "deaf"}
    /\ loop' = "returned"
    /\ failed' = (failed \/ main = "serving")
    /\ UNCHANGED <<vars, runVars, stop, web, hubClosed, expired>>

\* A request ends; a stream does when the hub is closed, or its page leaves.
HttpEnds ==
    /\ web = "request" \/ (web = "stream" /\ hubClosed)
    /\ web' = "none"
    /\ UNCHANGED <<vars, runVars, loop, stop, hubClosed, failed, expired>>

PageLeaves ==
    /\ web = "stream"
    /\ web' = "none"
    /\ UNCHANGED <<vars, runVars, loop, stop, hubClosed, failed, expired>>

\* Shutdown begins: the listener is closed.
HttpStop ==
    /\ main = "stopping" /\ stop = "no"
    /\ stop' = "waiting"
    /\ loop' = IF loop = "accepting" THEN "deaf" ELSE loop
    /\ UNCHANGED <<vars, runVars, web, hubClosed, failed, expired>>

\* Mutant: nothing is registered.
OnShutdownMissing == FALSE /\ UNCHANGED allVars

\* RegisterOnShutdown(events.Close): a goroutine that Shutdown does not wait for.
OnShutdown ==
    /\ stop # "no" /\ ~hubClosed
    /\ hubClosed' = TRUE
    /\ UNCHANGED <<vars, runVars, loop, stop, web, failed, expired>>

HttpDrained ==
    /\ stop = "waiting" /\ loop \in {"idle", "returned"} /\ web = "none"
    /\ stop' = "nil"
    /\ UNCHANGED <<vars, runVars, loop, web, hubClosed, failed, expired>>

HttpExpires ==
    /\ stop = "waiting" /\ expired
    /\ stop' = "error"
    /\ UNCHANGED <<vars, runVars, loop, web, hubClosed, failed, expired>>

-----------------------------------------------------------------------------
(* The steps of the POP3 service in this program, and of the store. *)

Pop3Serving ==
    /\ Up
    /\ Serving
    /\ failed' = (failed \/ (AcceptFails /\ main = "serving"))
    /\ UNCHANGED <<runVars, httpVars, expired>>

\* A closed database answers nothing but errors.
Pop3Handler(c) ==
    /\ Handler(c)
    /\ Opened(c) \/ Deleted(c) => db = "open"
    /\ UNCHANGED <<runVars, httpVars, failed, expired>>

Pop3Stopping ==
    /\ \/ main = "stopping" /\ BeginShutdown
       \/ Stopping
       \/ expired /\ Expire
    /\ UNCHANGED <<runVars, httpVars, failed, expired>>

StoreChanges ==
    /\ Up /\ db = "open"
    /\ Deliver \/ (web = "request" /\ (DeleteOverHTTP \/ Wipe))
    /\ UNCHANGED <<runVars, httpVars, failed, expired>>

-----------------------------------------------------------------------------
Main == OpenStore \/ Listen \/ Leave \/ Collect \/ CloseStore \/ Exit \/ Deadline
HttpServing == HttpStart \/ HttpAccept \/ HttpAcceptFails \/ HttpEnds \/ PageLeaves
HttpStopping == HttpStop \/ HttpDrained \/ HttpExpires

LifecycleNext ==
    \/ Main
    \/ /\ main # "exited"
       /\ \/ HttpServing \/ HttpStopping \/ OnShutdown
          \/ Pop3Serving \/ Pop3Stopping \/ StoreChanges
          \/ \E c \in Conns : Pop3Handler(c)
    \/ main = "exited" /\ UNCHANGED allVars

(* Handlers and the goroutines of a shutdown that can run do.  That a signal *)
(* or a connection comes, that Accept fails on an open listener, that a page *)
(* leaves its stream, and that the deadline passes is not assumed.           *)
LifecycleFairness ==
    /\ WF_allVars((failed /\ Leave) \/ Collect \/ CloseStore \/ Exit)
    /\ WF_allVars(HttpStopping) /\ WF_allVars(OnShutdown)
    /\ WF_allVars(HttpEnds)
    /\ WF_allVars(loop = "deaf" /\ HttpAcceptFails)
    /\ WF_allVars(Pop3Stopping)
    /\ \A c \in Conns : WF_allVars(Pop3Handler(c))

LifecycleSpec == LifecycleInit /\ [][LifecycleNext]_allVars /\ LifecycleFairness

-----------------------------------------------------------------------------
\* A shutdown that reports success was one: when the database is closed no handler
\* and no stream is left, and no Serve, not even one that starts late, begins
\* another.  With handlers left at the deadline the program says so.
CleanExit ==
    db = "closed" /\ result = "ok" =>
        web = "none" /\ \A c \in Conns : hpc[c] \notin Running

\* A program that was told to stop, or one of whose services failed, exits, and
\* without its deadline, although streams are open and POP3 clients go on sending:
\* the hub is closed as the shutdown begins, which ends the streams.
ProgramExits == failed \/ main = "stopping" ~> main = "exited"
=============================================================================
