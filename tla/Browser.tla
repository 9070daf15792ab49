------------------------------ MODULE Browser ------------------------------
(***************************************************************************)
(* BrowserService (plugin-node).  The first call of getPageContent         *)
(* launches the browser, makes its context and loads the ad blocker; every *)
(* call then looks its page up in the cache or opens it.  A page that is   *)
(* forbidden or missing is looked for in the Internet Archive, with the    *)
(* first page still open, and what is missing there as well in the archive *)
(* of the archive.  closeBrowser has no caller.                            *)
(***************************************************************************)
EXTENDS Sequences, Naturals

CONSTANTS
    Calls,      \* calls of getPageContent
    PageOf,     \* PageOf[c]: the url of the page it is about
    MaxDepth,   \* bound: archives of archives that answer 403 or 404
    MaxFaults   \* bound: launches, requests and cache reads that fail

BrowserAssumption == MaxDepth \in Nat /\ MaxFaults \in Nat

VARIABLES
    browser,  \* this.browser is set
    context,  \* this.context is set
    at,       \* at[c]: what the call waits for
    trail,    \* trail[c]: the alternative sources it is nested in
    open,     \* open[c]: the pages it has open
    result,   \* result[c]: what it is going to return
    cached,   \* <<url, trail>> of the pages in the cache
    early,    \* calls made while the browser was set and its context not
    faults

vars == <<browser, context, at, trail, open, result, cached, early, faults>>

Pages == {PageOf[c] : c \in Calls}
Sources == {"archive", "google"}
Trails == UNION {[1 .. n -> Sources] : n \in 0 .. MaxDepth + 1}

Init ==
    /\ browser = FALSE /\ context = FALSE
    /\ at = [c \in Calls |-> "new"]
    /\ trail = [c \in Calls |-> <<>>]
    /\ open = [c \in Calls |-> 0]
    /\ result = [c \in Calls |-> "none"]
    /\ cached = {}
    /\ early = {}
    /\ faults = 0

Go(c, place) == at' = [at EXCEPT ![c] = place]
Finish(c, what) == Go(c, "closing") /\ result' = [result EXCEPT ![c] = what]
Fault == faults < MaxFaults /\ faults' = faults + 1
Key(c) == <<PageOf[c], trail[c]>>

----------------------------------------------------------------------------
(* initializeBrowser: only a call that finds no browser waits. *)
GetPageContent(c) ==
    /\ at[c] = "new"
    /\ Go(c, IF browser THEN "lookup" ELSE "launch")
    /\ early' = IF browser /\ ~context THEN early \cup {c} ELSE early
    /\ UNCHANGED <<browser, context, trail, open, result, cached, faults>>

(* A browser that another call launched in the meantime is lost. *)
(* Mutant: the call does not wait for what comes after the launch. *)
AfterLaunch_Lookup == "lookup"
AfterLaunch == "context"

Launched(c) ==
    /\ at[c] = "launch"
    /\ browser' = TRUE
    /\ Go(c, AfterLaunch)
    /\ UNCHANGED <<context, trail, open, result, cached, early, faults>>

ContextMade(c) ==
    /\ at[c] = "context"
    /\ context' = TRUE
    /\ Go(c, "blocker")
    /\ UNCHANGED <<browser, trail, open, result, cached, early, faults>>

BlockerLoaded(c) ==
    /\ at[c] = "blocker"
    /\ Go(c, "lookup")
    /\ UNCHANGED <<browser, context, trail, open, result, cached, early, faults>>

(* getPageContent is rejected.  What has been set stays set. *)
InitializationFails(c) ==
    /\ at[c] \in {"launch", "context", "blocker"}
    /\ Fault
    /\ Finish(c, "rejected")
    /\ UNCHANGED <<browser, context, trail, open, cached, early>>

----------------------------------------------------------------------------
(* fetchPageContent.  Without a context its try block fails at newPage. *)
Lookup(c) ==
    /\ at[c] = "lookup"
    /\ IF Key(c) \in cached THEN Finish(c, "content")
       ELSE IF ~context THEN Finish(c, "error")
       ELSE Go(c, "page") /\ UNCHANGED result
    /\ UNCHANGED <<browser, context, trail, open, cached, early, faults>>

(* The cache is read outside the try block: its error reaches the caller,  *)
(* or tryAlternativeSources, which goes on to a search and then gives up.  *)
LookupFails(c) ==
    /\ at[c] = "lookup"
    /\ Fault
    /\ LET n == Len(trail[c]) IN
       IF n = 0 THEN Finish(c, "rejected") /\ UNCHANGED trail
       ELSE IF trail[c][n] = "archive"
       THEN trail' = [trail EXCEPT ![c][n] = "google"] /\ UNCHANGED <<at, result>>
       ELSE Finish(c, "error") /\ UNCHANGED trail
    /\ UNCHANGED <<browser, context, open, cached, early>>

PageOpened(c) ==
    /\ at[c] = "page"
    /\ open' = [open EXCEPT ![c] = @ + 1]
    /\ Go(c, "load")
    /\ UNCHANGED <<browser, context, trail, result, cached, early, faults>>

(* Captcha, text and summary follow the page; what is stored is returned. *)
Loaded(c) ==
    /\ at[c] = "load"
    /\ Finish(c, "content")
    /\ cached' = cached \cup {Key(c)}
    /\ UNCHANGED <<browser, context, trail, open, early, faults>>

(* 403 or 404. *)
Refused(c) ==
    /\ at[c] = "load"
    /\ Len(trail[c]) < MaxDepth
    /\ trail' = [trail EXCEPT ![c] = Append(@, "archive")]
    /\ Go(c, "lookup")
    /\ UNCHANGED <<browser, context, open, result, cached, early, faults>>

FetchFails(c) ==
    /\ at[c] \in {"page", "load"}
    /\ Fault
    /\ Finish(c, "error")
    /\ UNCHANGED <<browser, context, trail, open, cached, early>>

(* The finally blocks, from the innermost page out. *)
ClosePage(c) ==
    /\ at[c] = "closing"
    /\ open' = [open EXCEPT ![c] = IF @ = 0 THEN 0 ELSE @ - 1]
    /\ Go(c, IF open[c] = 0 THEN "done" ELSE "closing")
    /\ UNCHANGED <<browser, context, trail, result, cached, early, faults>>

Advance(c) ==
    \/ Launched(c) \/ ContextMade(c) \/ BlockerLoaded(c) \/ InitializationFails(c)
    \/ Lookup(c) \/ LookupFails(c) \/ PageOpened(c) \/ Loaded(c) \/ Refused(c)
    \/ FetchFails(c) \/ ClosePage(c)

Next == \E c \in Calls : GetPageContent(c) \/ Advance(c)

Spec == Init /\ [][Next]_vars

----------------------------------------------------------------------------
(* Types of the service's fields and of the calls. *)
TypeOK ==
    /\ browser \in BOOLEAN /\ context \in BOOLEAN
    /\ at \in [Calls -> {"new", "launch", "context", "blocker", "lookup", "page", "load",
                         "closing", "done"}]
    /\ trail \in [Calls -> Trails]
    /\ open \in [Calls -> 0 .. MaxDepth + 1]
    /\ result \in [Calls -> {"none", "content", "error", "rejected"}]
    /\ cached \subseteq Pages \X Trails
    /\ early \subseteq Calls
    /\ faults \in 0 .. MaxFaults

(* A call is told that its page could not be fetched only when something   *)
(* failed, or when it came after another call had launched the browser and *)
(* before that call had made the context.                                  *)
ErrorsHaveCause ==
    \A c \in Calls : result[c] = "error" => faults > 0 \/ c \in early

============================================================================
