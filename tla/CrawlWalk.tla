------------------------------ MODULE CrawlWalk ------------------------------
(***************************************************************************)
(* One crawl session: a queue of links, pages fetched one after the other,    *)
(* up to maxPages results and maxDepth links away from the first page.  A     *)
(* page may fail and is not tried again.                                    *)
(***************************************************************************)
EXTENDS Integers, Sequences, SequencesExt

CONSTANTS
    Pages,      \* URLs
    Seed,       \* where the crawl starts
    Webs,       \* the links of each page, in order, after the domain filter
    Fanout,     \* links followed per page; 5 in the code
    MaxDepth, MaxPages

ASSUME CrawlAssumption ==
    /\ Seed \in Pages
    /\ Webs \subseteq [Pages -> Seq(Pages)]
    /\ Fanout \in Nat /\ MaxDepth \in Nat /\ MaxPages \in Nat

VARIABLES
    web,        \* the links of this crawl's pages
    frontier,   \* queue of [url, depth]
    visited,
    found,      \* results, in order
    session     \* status of the job

crawl == <<web, frontier, visited, found, session>>

At(url, depth) == [url |-> url, depth |-> depth]

CrawlInit ==
    /\ web \in Webs
    /\ frontier = <<At(Seed, 0)>>
    /\ visited = {} /\ found = <<>>
    /\ session = "running"

Walking == session = "running" /\ frontier # <<>> /\ Len(found) < MaxPages

(* Mutant: the newest entry is taken.                                      *)
NewestEntry == Len(frontier)

(* queue.shift(): the oldest entry.                                        *)
NextEntry == 1

Picked == frontier[NextEntry]
Rest == RemoveAt(frontier, NextEntry)

(* The links of a page that go into the queue.                             *)
Followed(url) ==
    SubSeq(web[url], 1, IF Len(web[url]) < Fanout THEN Len(web[url]) ELSE Fanout)

(* The loop over the links: one that was visited is not queued.            *)
Pushed(links, seen, depth) ==
    LET pushed[n \in 0..Len(links)] ==
            IF n = 0 THEN <<>>
            ELSE IF links[n] \in seen THEN pushed[n - 1]
            ELSE Append(pushed[n - 1], At(links[n], depth))
    IN pushed[Len(links)]

Children(entry) ==
    IF entry.depth >= MaxDepth THEN <<>>
    ELSE Pushed(Followed(entry.url), visited \cup {entry.url}, entry.depth + 1)

SkipVisited ==
    /\ Walking /\ Picked.url \in visited
    /\ frontier' = Rest
    /\ UNCHANGED <<web, visited, found, session>>

(* crawlPage: a result, or null for an error, a timeout or a status >= 400.*)
Visit ==
    /\ Walking /\ Picked.url \notin visited
    /\ visited' = visited \cup {Picked.url}
    /\ UNCHANGED <<web, session>>

PageFound ==
    /\ Visit
    /\ found' = Append(found, Picked)
    /\ frontier' = Rest \o Children(Picked)

PageFails ==
    /\ Visit
    /\ frontier' = Rest
    /\ UNCHANGED found

CrawlDone ==
    /\ session = "running" /\ ~Walking
    /\ session' = "done"
    /\ UNCHANGED <<web, frontier, visited, found>>

CrawlNext == SkipVisited \/ PageFound \/ PageFails \/ CrawlDone

ResultsOf(url) == {i \in DOMAIN found : found[i].url = url}

(* The results are what a breadth-first walk finds: every page once, at its  *)
(* least distance from the seed along followed links of pages that were      *)
(* found, none farther than maxDepth, at most maxPages; and a crawl that is   *)
(* done below maxPages tried every link it was to follow.  (startCrawl.)     *)
BreadthFirst ==
    /\ Len(found) <= MaxPages
    /\ \A url \in Pages : \A i, j \in ResultsOf(url) : i = j
    /\ \A i \in DOMAIN found :
        LET page == found[i] IN
        /\ page.depth <= MaxDepth
        /\ IF page.url = Seed THEN page.depth = 0
           ELSE \E j \in 1 .. i - 1 :
                    found[j].depth = page.depth - 1 /\ page.url \in Range(Followed(found[j].url))
        /\ \A j \in DOMAIN found :
              page.url \in Range(Followed(found[j].url)) /\ found[j].depth < MaxDepth =>
                  page.depth <= found[j].depth + 1
    /\ session = "done" /\ Len(found) < MaxPages =>
          \A i \in DOMAIN found :
              found[i].depth < MaxDepth => Range(Followed(found[i].url)) \subseteq visited
==============================================================================
