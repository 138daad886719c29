----------------------------- MODULE WorkSearch -----------------------------
(***************************************************************************)
(* Collector.CollectWorks, src/internal/poc/search.go, and the loop around *)
(* it that waits until the page can search (collectWorksFromSearchInternal *)
(* in ltaoo_client.go): pages of search results, on each the feeds of the  *)
(* accounts it lists, until there are works enough, the source ends, or it *)
(* makes no progress; a checkpoint after each page.                        *)
(*                                                                         *)
(* The source may answer anything: any works, again or not, and any        *)
(* marker.  Of a marker only that counts which the code asks of it: it is  *)
(* "absent", "end" (empty), "stalled" (blank, or the one just asked for),  *)
(* "repeated" (asked for before) or "fresh".  Abstracted: what a work is,  *)
(* items that are no video works, the share URLs resolved afterwards.      *)
(***************************************************************************)
EXTENDS Integers, Sequences, SequencesExt, FiniteSets

CONSTANTS
  Works,          \* what the source may show
  WorkLimit,      \* Limits.Works
  MaxPages,       \* maxFinderSearchPages: ten for each work, 20 at least
  NoProgressCap,  \* maxFinderSearchNoProgressPages (8)
  MaxAccounts,    \* bound on the accounts a page lists
  MaxTries        \* bound on CollectWorks until the deadline

ASSUME WorkSearchAssumption ==
  /\ {WorkLimit, MaxPages, NoProgressCap, MaxTries} \subseteq Nat \ {0} /\ MaxAccounts \in Nat
  /\ IsFiniteSet(Works)

Markers == {"absent", "end", "stalled", "repeated", "fresh"}

VARIABLES
  search,       \* "off", "paging", "feeds", "retrying" or "over"
  works,        \* the works found, in order of rank
  pages,        \* searchPages
  idlePages,    \* noProgressPages
  page,         \* of the page at hand: [before, listed, accounts, feedIncomplete, marker]
  result,       \* "none", "target_met", "source_exhausted", "incomplete" or "failed"
  searchPoint,  \* checkpoint.json: [phase, works]
  tries,
  calls         \* history: requests of this CollectWorks

searchVars == <<search, works, pages, idlePages, page, result, searchPoint, tries, calls>>

EmptyPage == [before |-> 0, listed |-> FALSE, accounts |-> 0, feedIncomplete |-> FALSE, marker |-> "end"]

SearchInit ==
  /\ search = "off" /\ works = <<>> /\ pages = 0 /\ idlePages = 0 /\ page = EmptyPage
  /\ result = "none" /\ searchPoint = [phase |-> "none", works |-> <<>>] /\ tries = 0 /\ calls = 0

Enough == Len(works) >= WorkLimit

\* Works of a page that are new, as many as there is room for, in some order.
Accepts(shown) ==
  \E order \in SetToSeqs(shown \ ToSet(works)) :
    works' = works \o SubSeq(order, 1, IF Len(order) < WorkLimit - Len(works) THEN Len(order)
                                       ELSE WorkLimit - Len(works))

Save(phase) == searchPoint' = [phase |-> phase, works |-> works]
Over(coverage) == search' = "over" /\ result' = coverage

\* The checkpoint cannot be written: no transient error, so nobody tries again.
SaveFails == Over("failed") /\ UNCHANGED searchPoint

-----------------------------------------------------------------------------
\* CollectWorks begins, from nothing or from the checkpoint of the try before.
SearchBegins ==
  /\ search \in {"off", "retrying"} /\ tries < MaxTries
  /\ tries' = tries + 1 /\ calls' = 0
  /\ works' = searchPoint.works
  /\ pages' = 0 /\ idlePages' = 0 /\ page' = EmptyPage
  /\ search' = "paging"
  /\ UNCHANGED <<result, searchPoint>>

\* The deadline of the readiness loop.
SearchGivesUp ==
  /\ search = "retrying"
  /\ Over("failed")
  /\ UNCHANGED <<works, pages, idlePages, page, searchPoint, tries, calls>>

\* The loop ends: works enough, or pages enough.
PagingEnds ==
  /\ search = "paging"
  /\ \/ Enough /\ Over("target_met") /\ UNCHANGED searchPoint
     \/ /\ ~Enough /\ pages >= MaxPages
        /\ (Save("search_incomplete") /\ Over("incomplete")) \/ SaveFails
  /\ UNCHANGED <<works, pages, idlePages, page, tries, calls>>

MayAsk == search = "paging" /\ ~Enough /\ pages < MaxPages

\* A request that fails: transient, so that it is tried again, or for good.
PageFails ==
  /\ MayAsk
  /\ pages' = pages + 1 /\ calls' = calls + 1
  /\ \/ Save("search") /\ search' = "retrying" /\ UNCHANGED result
     \/ Save("search") /\ Over("failed")
     \/ SaveFails
  /\ UNCHANGED <<works, idlePages, page, tries>>

PageComes ==
  /\ MayAsk
  /\ pages' = pages + 1 /\ calls' = calls + 1
  /\ \E shown \in SUBSET Works, accounts \in 0..MaxAccounts, marker \in Markers :
       /\ Accepts(shown)
       /\ page' = [before |-> Len(works), listed |-> accounts > 0, accounts |-> accounts,
                   feedIncomplete |-> FALSE, marker |-> marker]
  /\ search' = "feeds"
  /\ UNCHANGED <<idlePages, result, searchPoint, tries>>

\* Mutant of FeedGoesOn: a feed is followed although it shows nothing new.
FeedGoesOnAnyway(marker, progress) == marker = "fresh"
FeedGoesOn(marker, progress) == marker = "fresh" /\ progress

\* A page of an account's feed, or its failure.
FeedComes ==
  /\ search = "feeds" /\ page.accounts > 0 /\ ~Enough
  /\ calls' = calls + 1
  /\ \E shown \in SUBSET Works, marker \in Markers \cup {"failed"} :
       /\ IF marker = "failed" THEN UNCHANGED works ELSE Accepts(shown)
       /\ LET goesOn == FeedGoesOn(marker, Len(works') > Len(works))
          IN page' = [page EXCEPT !.accounts = IF goesOn THEN @ ELSE @ - 1,
                                  !.feedIncomplete = @ \/ (~goesOn /\ marker # "end")]
  /\ UNCHANGED <<search, pages, idlePages, result, searchPoint, tries>>

\* The page is done: is there another, and may it be asked for?
PageEnds ==
  /\ search = "feeds" /\ (page.accounts = 0 \/ Enough)
  /\ LET idle    == IF Len(works) = page.before THEN idlePages + 1 ELSE 0
         stopped == page.marker \in {"stalled", "repeated"} \/ idle >= NoProgressCap \/ pages >= MaxPages
     IN \/ SaveFails /\ idlePages' = IF Enough THEN idlePages ELSE idle
        \/ /\ Enough
           /\ Save("search_complete") /\ Over("target_met") /\ UNCHANGED idlePages
        \/ /\ ~Enough /\ page.marker = "absent"
           /\ Save("search_incomplete") /\ idlePages' = idle
           /\ Over(IF page.listed /\ ~page.feedIncomplete THEN "source_exhausted" ELSE "incomplete")
        \/ /\ ~Enough /\ page.marker = "end" /\ idlePages' = idle
           /\ Save(IF page.feedIncomplete THEN "search_incomplete" ELSE "search_complete")
           /\ Over(IF page.feedIncomplete THEN "incomplete" ELSE "source_exhausted")
        \/ /\ ~Enough /\ page.marker \notin {"absent", "end"} /\ idlePages' = idle
           /\ IF stopped THEN Save("search_incomplete") /\ Over("incomplete")
              ELSE Save("search") /\ search' = "paging" /\ UNCHANGED result
  /\ UNCHANGED <<works, pages, page, tries, calls>>

SearchNext == SearchBegins \/ SearchGivesUp \/ PagingEnds \/ PageFails \/ PageComes \/ FeedComes \/ PageEnds
SearchSpec == SearchInit /\ [][SearchNext]_searchVars

-----------------------------------------------------------------------------
SearchTypeOK ==
  /\ search \in {"off", "paging", "feeds", "retrying", "over"}
  /\ ToSet(works) \subseteq Works /\ pages \in 0..MaxPages /\ idlePages \in 0..NoProgressCap
  /\ page \in [before : 0..WorkLimit, listed : BOOLEAN, accounts : 0..MaxAccounts,
               feedIncomplete : BOOLEAN, marker : Markers]
  /\ result \in {"none", "target_met", "source_exhausted", "incomplete", "failed"}
  /\ searchPoint.phase \in {"none", "search", "search_complete", "search_incomplete"}
  /\ tries \in 0..MaxTries

\* Whatever the source answers, a search asks for a bounded number of pages ("so
\* a stalled search cannot consume the whole provider timeout", search.go:65),
\* and takes no work twice and none beyond the limit, over all its tries.
SearchBounded ==
  /\ calls <= MaxPages * (1 + MaxAccounts) + WorkLimit
  /\ IsInjective(works) /\ Len(works) <= WorkLimit
  /\ (search = "over" /\ result = "target_met") => Len(works) = WorkLimit
=============================================================================
