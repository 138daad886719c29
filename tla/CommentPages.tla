---------------------------- MODULE CommentPages ----------------------------
(***************************************************************************)
(* Collector.CollectComments, src/internal/poc/comments.go: the comments   *)
(* of one work, page by page, then the replies of each comment that has    *)
(* more than its page showed; limits on all of them; and a checkpoint      *)
(* after each page, from which a later collector on the same store goes on *)
(* (as TestResumeCommentsFromLastCompletePage has it do).                  *)
(*                                                                         *)
(* The source is taken to be consistent: it has pages of comments and, for *)
(* each, pages of replies, numbered by their markers, so that none repeats *)
(* and the code's look for repeated markers finds nothing.  It may leave a *)
(* marker out, tell how many comments there are or not, and fail.          *)
(* Abstracted: what is in a comment; comments without an id; the evidence  *)
(* files; retries inside a call (see PocBridge).  Left out: reply limits   *)
(* that are both zero, with which no reply is taken or asked for, so that  *)
(* the second loop does nothing.                                           *)
(***************************************************************************)
EXTENDS Integers, Sequences, SequencesExt, FiniteSets

CONSTANTS
  Pages,        \* the pages of comments: a sequence of sequences
  Embedded,     \* the replies shown with each comment: a sequence for each
  ReplyPages,   \* the pages of replies of each comment, those shown included
  LimitChoices, \* records [top, perRoot, perWork] of limits
  MaxAttempts   \* bound on collectors that run on the store

Roots == UNION {ToSet(Pages[i]) : i \in DOMAIN Pages}
RepliesOf(c) == UNION {ToSet(ReplyPages[c][i]) : i \in DOMAIN ReplyPages[c]}
Everything == Roots \cup UNION {RepliesOf(c) : c \in Roots}

NoRoot == "none"

\* There is a first page; each comment is on one page or below one comment, and is
\* shown with it once; expandCommentCount counts all the replies there are.
ASSUME CommentPagesAssumption ==
  /\ Pages \in Seq(Seq(Roots)) /\ Pages # <<>> /\ NoRoot \notin Roots
  /\ \A c \in Roots : /\ ReplyPages[c] \in Seq(Seq(RepliesOf(c))) /\ RepliesOf(c) \cap Roots = {}
                       /\ Embedded[c] \in Seq(RepliesOf(c)) /\ IsInjective(Embedded[c])
                       /\ \A d \in Roots : d # c => RepliesOf(c) \cap RepliesOf(d) = {}
  /\ LimitChoices \subseteq [top : Nat \ {0}, perRoot : Nat \ {0}, perWork : Nat \ {0}]
  /\ MaxAttempts \in Nat
First == 1      \* the empty marker, which asks for the first page and says there is no next one

VARIABLES
  limits,      \* options.Limits
  stage,       \* "off", "top", "replies", "failed" or "complete"
  got,         \* [comments, seen, roots, marks]: what CollectComments has in hand
  marker,      \* the marker of the next request
  checkpoint,  \* checkpoint.json
  attempts,    \* collectors so far
  told         \* history: what any of them has marked, truncated or partial

commentVars == <<limits, stage, got, marker, checkpoint, attempts, told>>

-----------------------------------------------------------------------------
(* What is in hand, and the limits                                         *)

CountIn(comments, S) == Cardinality({i \in DOMAIN comments : comments[i] \in S})
TopLevel(g) == CountIn(g.comments, Roots)
Replies(g)  == Len(g.comments) - TopLevel(g)
RepliesTo(g, c) == CountIn(g.comments, RepliesOf(c))

WorkFull(g)    == Replies(g) >= limits.perWork
RootFull(g, c) == RepliesTo(g, c) >= limits.perRoot
LimitReached(g, c) == WorkFull(g) \/ RootFull(g, c)
Mark(g, mark) == [g EXCEPT !.marks = @ \cup {mark}]

AcceptReply(c, g, r) ==
  IF r \in g.seen THEN g
  ELSE IF LimitReached(g, c) THEN Mark(g, "truncated")
  ELSE [g EXCEPT !.comments = Append(@, r), !.seen = @ \cup {r}]

\* The replies of a page, one after the other.
TakeReplies(c, g, replies) ==
  LET taken[n \in 0..Len(replies)] ==
        IF n = 0 THEN g ELSE AcceptReply(c, taken[n - 1], replies[n])
  IN taken[Len(replies)]

\* A comment of a page, the replies shown with it, and whether to ask for more.
AcceptComment(g, c) ==
  IF TopLevel(g) >= limits.top THEN Mark(g, "truncated")
  ELSE IF c \in g.seen THEN g
  ELSE LET h == TakeReplies(c, [g EXCEPT !.comments = Append(@, c), !.seen = @ \cup {c}], Embedded[c])
       IN IF Cardinality(RepliesOf(c)) > Len(Embedded[c]) /\ ~LimitReached(h, c)
          THEN [h EXCEPT !.roots = Append(@, c)] ELSE h

TakeComments(g, items) ==
  LET taken[n \in 0..Len(items)] == IF n = 0 THEN g ELSE AcceptComment(taken[n - 1], items[n])
  IN taken[Len(items)]

-----------------------------------------------------------------------------
(* The checkpoint                                                          *)

NoCheckpoint == [phase |-> "none"]
Saved(phase, g, next, current) ==
  [phase |-> phase, marker |-> next, roots |-> g.roots, current |-> current, comments |-> g.comments]

Nothing == [comments |-> <<>>, seen |-> {}, roots |-> <<>>, marks |-> {}]

Restored(c) ==
  [comments |-> c.comments, seen |-> ToSet(c.comments), roots |-> c.roots, marks |-> {}]

\* Mutant of StillAsked: the comment whose replies failed is left out.
StillAskedAfter(g) == [g EXCEPT !.roots = IF @ = <<>> THEN @ ELSE Tail(@)]
\* roots[rootIndex:], the comment in hand and those behind it.
StillAsked(g) == g

-----------------------------------------------------------------------------
CommentInit ==
  /\ limits \in LimitChoices
  /\ stage = "off" /\ got = Nothing /\ marker = First
  /\ checkpoint = NoCheckpoint /\ attempts = 0 /\ told = {}

\* CollectComments up to its loops: from nothing, or from the checkpoint.
Collect ==
  /\ stage \in {"off", "failed"} /\ attempts < MaxAttempts
  /\ attempts' = attempts + 1
  /\ IF checkpoint = NoCheckpoint
     THEN got' = Nothing /\ marker' = First /\ stage' = "top"
     ELSE LET g    == Restored(checkpoint)
              full == TopLevel(g) >= limits.top
          IN /\ got' = IF full \/ WorkFull(g) THEN Mark(g, "truncated") ELSE g
             /\ stage' = IF checkpoint.phase = "comments_complete" THEN "complete"
                        ELSE IF checkpoint.phase = "comments_top" /\ ~full THEN "top" ELSE "replies"
             /\ marker' = IF \/ stage' = "top"
                             \/ checkpoint.roots # <<>> /\ Head(checkpoint.roots) = checkpoint.current
                          THEN checkpoint.marker ELSE First
  /\ told' = told \cup got'.marks
  /\ UNCHANGED <<limits, checkpoint>>

\* The call fails, or its answer has another shape: what is in hand is saved
\* with the marker that failed.
Fail ==
  /\ \/ stage = "top" /\ checkpoint' = Saved("comments_top", got, marker, NoRoot)
     \/ /\ stage = "replies" /\ got.roots # <<>> /\ ~LimitReached(got, Head(got.roots))
        /\ checkpoint' = Saved("comments_replies", StillAsked(got), marker, Head(got.roots))
  /\ stage' = "failed"
  /\ UNCHANGED <<limits, got, marker, attempts, told>>

\* The program dies, or a checkpoint cannot be written.
Die ==
  /\ stage \in {"top", "replies"}
  /\ stage' = "failed"
  /\ UNCHANGED <<limits, got, marker, checkpoint, attempts, told>>

\* How a page of comments ends the first loop: not at all, quietly, or with a
\* mark.  "present" says whether there is a marker, "counted" whether the source
\* tells how many comments there are.
PageVerdict(g, items, next, present, counted) ==
  LET reached == counted /\ Cardinality(Everything) > 0 /\ Len(g.comments) >= Cardinality(Everything)
      empty   == counted /\ Everything = {} /\ g.comments = <<>>
  IN IF TopLevel(g) >= limits.top THEN "truncated"
     ELSE IF present /\ next = First THEN "ends"
     ELSE IF items = <<>> /\ present THEN IF reached \/ empty THEN "ends" ELSE "partial"
     ELSE IF ~present THEN IF (IF items = <<>> THEN empty ELSE reached) THEN "ends" ELSE "partial"
     ELSE "goes on"

\* One page of comments, the checkpoint after it, and what follows.
TopPage ==
  /\ stage = "top"
  /\ \E present, counted \in BOOLEAN :
       LET items   == Pages[marker]
           next    == IF present /\ marker < Len(Pages) THEN marker + 1 ELSE First
           g       == TakeComments(got, items)
           verdict == PageVerdict(g, items, next, present, counted)
           h       == IF verdict \in {"truncated", "partial"} THEN Mark(g, verdict) ELSE g
       IN /\ checkpoint' = Saved(IF present /\ next = First THEN "comments_replies" ELSE "comments_top",
                                 g, next, NoRoot)
          /\ got' = h /\ told' = told \cup h.marks
          /\ IF verdict = "goes on" THEN marker' = next /\ UNCHANGED stage
             ELSE marker' = First /\ stage' = "replies"
  /\ UNCHANGED <<limits, attempts>>

\* The next comment has its replies already, as many as the limit allows.
SkipRoot ==
  /\ stage = "replies" /\ got.roots # <<>> /\ ~WorkFull(got) /\ RootFull(got, Head(got.roots))
  /\ got' = [Mark(got, "truncated") EXCEPT !.roots = Tail(@)]
  /\ marker' = First /\ told' = told \cup {"truncated"}
  /\ UNCHANGED <<limits, stage, checkpoint, attempts>>

\* One page of replies of the comment at hand.
ReplyPage ==
  /\ stage = "replies" /\ got.roots # <<>> /\ ~LimitReached(got, Head(got.roots))
  /\ \E present \in BOOLEAN :
       LET c    == Head(got.roots)
           next == IF present /\ marker < Len(ReplyPages[c]) THEN marker + 1 ELSE First
           g    == TakeReplies(c, got, ReplyPages[c][marker])
           h    == IF LimitReached(g, c) THEN Mark(g, "truncated")
                 ELSE IF ~present THEN Mark(g, "partial") ELSE g
       IN /\ checkpoint' = Saved("comments_replies", g, next, c)
          /\ told' = told \cup h.marks
          /\ IF LimitReached(g, c) \/ next = First
             THEN marker' = First /\ got' = [h EXCEPT !.roots = Tail(@)]
             ELSE marker' = next /\ got' = h
  /\ UNCHANGED <<limits, stage, attempts>>

\* No comment is left to ask for, or the work has as many replies as it may.
Finish ==
  /\ stage = "replies" /\ (got.roots = <<>> \/ WorkFull(got))
  /\ stage' = "complete"
  /\ got' = IF got.roots # <<>> THEN Mark(got, "truncated") ELSE got
  /\ told' = told \cup got'.marks
  /\ checkpoint' = Saved("comments_complete", [got EXCEPT !.roots = <<>>], First, NoRoot)
  /\ UNCHANGED <<limits, marker, attempts>>

CommentNext == Collect \/ Fail \/ Die \/ TopPage \/ SkipRoot \/ ReplyPage \/ Finish
CommentSpec == CommentInit /\ [][CommentNext]_commentVars

-----------------------------------------------------------------------------
CommentTypeOK ==
  /\ limits \in LimitChoices
  /\ stage \in {"off", "top", "replies", "failed", "complete"}
  /\ ToSet(got.comments) \subseteq Everything /\ got.seen \subseteq Everything
  /\ ToSet(got.roots) \subseteq Roots /\ got.marks \subseteq {"truncated", "partial"}
  /\ marker \in Nat \ {0} /\ attempts \in 0..MaxAttempts
  /\ checkpoint.phase \in {"none", "comments_top", "comments_replies", "comments_complete"}

\* However often the collection is interrupted and taken up again, no comment is
\* in it twice and no limit is passed; and a collection that counts as complete
\* has every comment the source has, or one of its collectors has said that it is
\* truncated or partial (comments.go:60-105 restores what 189 and 311 saved): but
\* for replies to a comment whose page showed as many of them as a limit allows,
\* when comments.go:176 neither asks for the others nor says that there are any.
NothingLostSilently ==
  /\ IsInjective(got.comments)
  /\ TopLevel(got) <= limits.top /\ Replies(got) <= limits.perWork
  /\ \A c \in Roots : RepliesTo(got, c) <= limits.perRoot
  /\ stage = "complete" /\ told = {} =>
       \A x \in Everything \ ToSet(got.comments) :
         \E c \in ToSet(got.comments) \cap Roots : x \in RepliesOf(c) /\ LimitReached(got, c)
=============================================================================
