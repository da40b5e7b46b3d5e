---------------------------- MODULE BrowserSession ----------------------------
(***************************************************************************)
(* BrowserManager: the browser that several requests share.  A start that is *)
(* under way is shared, a stop waits for it, and every browser that came up  *)
(* tells the manager when it disconnects - also one that was stopped while    *)
(* its successor is already in use.                                          *)
(***************************************************************************)
EXTENDS FiniteSets

CONSTANTS
    Browsers,       \* processes that may be launched
    Visitors,       \* requests that use or stop the browser
    NoBrowser

ASSUME BrowserAssumption == NoBrowser \notin Browsers

VARIABLES
    process,    \* of each browser
    page,       \* the browser whose page the manager holds
    starting,   \* the launch under way
    visitor,    \* what each request does
    cutOff      \* history: browsers dropped when another one disconnected

browser == <<process, page, starting, visitor, cutOff>>

BrowserInit ==
    /\ process = [b \in Browsers |-> "none"]
    /\ page = NoBrowser /\ starting = NoBrowser
    /\ visitor = [v \in Visitors |-> "away"]
    /\ cutOff = {}

Attend(v, what) == visitor' = [visitor EXCEPT ![v] = what]
Become(b, state) == process' = [process EXCEPT ![b] = state]

(* Mutant: a start does not look for one under way.                        *)
MayLaunchAnyway == page = NoBrowser
MayLaunch == page = NoBrowser /\ starting = NoBrowser

(* getPage: the page there is, the start under way, or a new one.          *)
Ask(v) ==
    /\ visitor[v] = "away"
    /\ IF MayLaunch
       THEN \E b \in Browsers :
               /\ process[b] = "none"
               /\ Become(b, "launching") /\ starting' = b
       ELSE UNCHANGED <<process, starting>>
    /\ Attend(v, IF page # NoBrowser THEN "served" ELSE "waiting")
    /\ UNCHANGED <<page, cutOff>>

(* Everyone who awaited the start goes on, with a page or an error.        *)
Wake(outcome) ==
    visitor' = [v \in Visitors |->
        CASE visitor[v] = "waiting" -> outcome
          [] visitor[v] = "stopping" -> "ready to stop"
          [] OTHER -> visitor[v]]

Opened(b) ==
    /\ process[b] = "launching" /\ starting = b
    /\ Become(b, "up")
    /\ page' = b /\ starting' = NoBrowser
    /\ Wake("served")
    /\ UNCHANGED cutOff

(* Launch, context or page failed; a browser that came up is closed.       *)
OpenFails(b) ==
    /\ process[b] = "launching" /\ starting = b
    /\ Become(b, "closed")
    /\ starting' = NoBrowser
    /\ Wake("away")
    /\ UNCHANGED <<page, cutOff>>

Serve(v) ==
    /\ visitor[v] = "served"
    /\ Attend(v, "away")
    /\ UNCHANGED <<process, page, starting, cutOff>>

AskStop(v) ==
    /\ visitor[v] = "away"
    /\ Attend(v, IF starting = NoBrowser THEN "ready to stop" ELSE "stopping")
    /\ UNCHANGED <<process, page, starting, cutOff>>

(* The manager forgets the browser first and closes it then.               *)
Stop(v) ==
    /\ visitor[v] = "ready to stop"
    /\ process' = [b \in Browsers |->
                    IF b = page /\ process[b] = "up" THEN "closing" ELSE process[b]]
    /\ page' = NoBrowser
    /\ Attend(v, "away")
    /\ UNCHANGED <<starting, cutOff>>

(* A browser that is closed, or crashes, is gone before the manager hears. *)
Gone(b) ==
    /\ process[b] \in {"closing", "up"}
    /\ Become(b, "gone")
    /\ UNCHANGED <<page, starting, visitor, cutOff>>

(* on('disconnected') clears the manager's page, whichever browser it is.  *)
Disconnected(b) ==
    /\ process[b] = "gone"
    /\ Become(b, "closed")
    /\ cutOff' = cutOff \cup ({page} \ {b, NoBrowser})
    /\ page' = NoBrowser
    /\ UNCHANGED <<starting, visitor>>

BrowserNext ==
    \/ \E v \in Visitors : Ask(v) \/ Serve(v) \/ AskStop(v) \/ Stop(v)
    \/ \E b \in Browsers : Opened(b) \/ OpenFails(b) \/ Gone(b) \/ Disconnected(b)

(* Requests that start, use and stop the browser at once launch one at a    *)
(* time; the manager's page belongs to a browser that is up or whose loss it *)
(* is about to hear; and no browser runs that the manager does not hold, but *)
(* for one it dropped when an older one disconnected.  (start, stop.)        *)
BrowsersAccounted ==
    /\ \A b \in Browsers : process[b] = "launching" => starting = b
    /\ page # NoBrowser => process[page] \in {"up", "gone"} /\ starting = NoBrowser
    /\ \A b \in Browsers : process[b] = "up" => page = b \/ b \in cutOff
==============================================================================
