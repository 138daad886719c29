--------------------------- MODULE SingleDownload ---------------------------
(***************************************************************************)
(* Downloads of one video at a time, src/internal/handlers/upload.go:      *)
(* download_video tests and enters the sync.Map activeDownloads and starts *)
(* a goroutine that lets the transfer engine write a temporary file, moves *)
(* it to a free name and records it; cancel_download cancels what the map  *)
(* names and deletes the entry.  Every request is a goroutine of its own.  *)
(*                                                                         *)
(* Abstracted: all videos have one author and title, the case in which     *)
(* their files can meet; a name is the copy numbers GenerateUniquePath has *)
(* put behind it.  The engine is external: a transfer ends well or badly   *)
(* and leaves anything where two wrote one file.  os.Remove and CreateTask *)
(* are one step.  Requests without a video id, which the map does not know *)
(* and whose temporary file has a random name, are left out.               *)
(***************************************************************************)
EXTENDS Integers, Sequences, FiniteSets

CONSTANTS
  Askers,      \* download_video requests, each with its goroutine
  NoAsker,
  Cancellers,  \* cancel_download requests
  Clips,       \* video ids
  NoClip

ASSUME SingleAssumption == NoAsker \notin Askers /\ NoClip \notin Clips /\ IsFiniteSet(Askers)

NoSpot == <<0>>   \* no file is called so: copies count from 1

VARIABLES
  asker,      \* asker[r] = [at, clip, force, spot, dest]
  canceller,  \* canceller[c] = [at, clip]
  active,     \* active[v]: whose CancelFunc h.activeDownloads holds for v
  temp,       \* files under temporary names: [spot, clip, content]
  stored,     \* files under their names: [spot, clip, content]
  saved,      \* saved[v]: the path in the record of v, or NoSpot
  slipped,    \* history: clips that were cancelled, or asked for twice before the first was entered
  contested   \* history: names two downloads were about to rename to at once

singleVars == <<asker, canceller, active, temp, stored, saved, slipped, contested>>

NotAsked == [at |-> "unsent", clip |-> NoClip, force |-> FALSE, spot |-> NoSpot, dest |-> NoSpot]

SingleInit ==
  /\ asker = [r \in Askers |-> NotAsked]
  /\ canceller = [c \in Cancellers |-> [at |-> "unsent", clip |-> NoClip]]
  /\ active = [v \in Clips |-> NoAsker]
  /\ temp = {} /\ stored = {}
  /\ saved = [v \in Clips |-> NoSpot]
  /\ slipped = {} /\ contested = {}

AskerAt(r, at)   == asker' = [asker EXCEPT ![r].at = at]
AskerAnswered(r) == asker' = [asker EXCEPT ![r] = [NotAsked EXCEPT !.at = "answered"]]

\* The goroutine has been started and has not ended.
Downloading(r) == asker[r].at \in {"started", "loading", "loaded", "moving", "moved", "leaving"}

SpotTaken(p) == \E f \in stored : f.spot = p

\* GenerateUniquePath: the first of name, name(1), name(2), ... that is not there,
\* as the set of the one name it is.
SpotCopy(p, k) == IF k = 0 THEN p ELSE Append(p, k)
FreeSpots(p) ==
  {SpotCopy(p, k) : k \in {n \in 0..Cardinality(stored) :
     ~SpotTaken(SpotCopy(p, n)) /\ \A j \in 0..n - 1 : SpotTaken(SpotCopy(p, j))}}

-----------------------------------------------------------------------------
(* The requests.                                                           *)

\* A record whose file is there ends the request, unless the download is forced;
\* otherwise the path is chosen.
AskerLooks(r, v, force) ==
  /\ asker[r].at = "unsent"
  /\ IF ~force /\ SpotTaken(saved[v])
     THEN AskerAnswered(r)
     ELSE \E p \in IF force THEN {<<>>} ELSE FreeSpots(<<>>) :
            asker' = [asker EXCEPT ![r] = [at |-> "looked", clip |-> v, force |-> force,
                                           spot |-> p, dest |-> NoSpot]]
  /\ UNCHANGED <<canceller, active, temp, stored, saved, slipped, contested>>

\* activeDownloads.Load
AlreadyActive(v) == active[v] # NoAsker

\* A download of the video in progress answers for this one.
AskerPasses(r) ==
  /\ asker[r].at = "looked"
  /\ IF AlreadyActive(asker[r].clip)
     THEN AskerAnswered(r) /\ UNCHANGED slipped
     ELSE /\ AskerAt(r, "passed")
          /\ slipped' = IF \E s \in Askers : asker[s].at = "passed" /\ asker[s].clip = asker[r].clip
                        THEN slipped \cup {asker[r].clip} ELSE slipped
  /\ UNCHANGED <<canceller, active, temp, stored, saved, contested>>

\* activeDownloads.Store, and the goroutine.
AskerEnters(r) ==
  /\ asker[r].at = "passed"
  /\ active' = [active EXCEPT ![asker[r].clip] = r]
  /\ AskerAt(r, "started")
  /\ UNCHANGED <<canceller, temp, stored, saved, slipped, contested>>

\* cancel_download: Load, and the CancelFunc, which may make a transfer end badly (it
\* may do so anyhow, and a poll of WaitTask may still find it done) ...
CancelFires(c, v) ==
  /\ canceller[c].at = "unsent"
  /\ IF active[v] # NoAsker
     THEN canceller' = [canceller EXCEPT ![c] = [at |-> "firing", clip |-> v]]
     ELSE canceller' = [canceller EXCEPT ![c].at = "answered"]
  /\ UNCHANGED <<asker, active, temp, stored, saved, slipped, contested>>

\* ... then Delete, of whatever is entered by then.
CancelDeletes(c) ==
  /\ canceller[c].at = "firing"
  /\ canceller' = [canceller EXCEPT ![c] = [at |-> "answered", clip |-> NoClip]]
  /\ active' = [active EXCEPT ![canceller[c].clip] = NoAsker]
  /\ slipped' = slipped \cup {canceller[c].clip}
  /\ UNCHANGED <<asker, temp, stored, saved, contested>>

-----------------------------------------------------------------------------
(* The goroutine.                                                          *)

IsTemp(f, r)   == f.spot = asker[r].spot /\ f.clip = asker[r].clip   \* BuildTempDownloadPath
HasTemp(r)     == \E f \in temp : IsTemp(f, r)
WithoutTemp(r) == {f \in temp : ~IsTemp(f, r)}
TempBecomes(r, content) ==
  temp' = WithoutTemp(r) \cup {[spot |-> asker[r].spot, clip |-> asker[r].clip, content |-> content]}

\* Another transfer writes to the same temporary file.
SharesTemp(r) ==
  \E s \in Askers \ {r} : /\ asker[s].at = "loading"
                          /\ asker[s].clip = asker[r].clip /\ asker[s].spot = asker[r].spot

\* A failure: what is under the temporary name is removed.
Abandons(r) == AskerAt(r, "leaving") /\ temp' = WithoutTemp(r)

\* What there was is removed; CreateTask, which may fail.
TransferBegins(r) ==
  /\ asker[r].at = "started"
  /\ \/ AskerAt(r, "loading") /\ TempBecomes(r, IF SharesTemp(r) THEN "mixed" ELSE "cut")
     \/ Abandons(r)
  /\ UNCHANGED <<canceller, active, stored, saved, slipped, contested>>

\* The engine is done, and its task removed; the file may be gone by then.
TransferDone(r) ==
  /\ asker[r].at = "loading"
  /\ AskerAt(r, "loaded")
  /\ IF HasTemp(r)
     THEN TempBecomes(r, IF SharesTemp(r) \/ \E f \in temp : IsTemp(f, r) /\ f.content # "cut"
                         THEN "mixed" ELSE "whole")
     ELSE UNCHANGED temp
  /\ UNCHANGED <<canceller, active, stored, saved, slipped, contested>>

\* An error of the engine, thirty minutes, or the cancellation: DeleteTask and os.Remove.
TransferFails(r) ==
  /\ asker[r].at = "loading"
  /\ Abandons(r)
  /\ UNCHANGED <<canceller, active, stored, saved, slipped, contested>>

\* os.Stat, DecryptFileInPlace, and the look of MoveFileToAvailablePath for a free name.
DownloadChecks(r) ==
  /\ asker[r].at = "loaded"
  /\ \/ /\ HasTemp(r)
        /\ \E p \in FreeSpots(asker[r].spot) :
             /\ asker' = [asker EXCEPT ![r].at = "moving", ![r].dest = p]
             /\ contested' = IF \E s \in Askers : asker[s].at = "moving" /\ asker[s].dest = p
                             THEN contested \cup {p} ELSE contested
        /\ UNCHANGED temp
     \/ Abandons(r) /\ UNCHANGED contested
  /\ UNCHANGED <<canceller, active, stored, saved, slipped>>

\* os.Rename, which replaces a file that has come to be there.
DownloadMoves(r) ==
  /\ asker[r].at = "moving"
  /\ IF HasTemp(r)
     THEN /\ AskerAt(r, "moved") /\ temp' = WithoutTemp(r)
          /\ stored' = {f \in stored : f.spot # asker[r].dest}
                         \cup {[f EXCEPT !.spot = asker[r].dest] : f \in {g \in temp : IsTemp(g, r)}}
     ELSE Abandons(r) /\ UNCHANGED stored
  /\ UNCHANGED <<canceller, active, saved, slipped, contested>>

\* downloadService.Create, which replaces the record; that it failed is only logged.
DownloadRecords(r) ==
  /\ asker[r].at = "moved"
  /\ AskerAt(r, "leaving")
  /\ \/ saved' = [saved EXCEPT ![asker[r].clip] = asker[r].dest]
     \/ UNCHANGED saved
  /\ UNCHANGED <<canceller, active, temp, stored, slipped, contested>>

\* Mutant of Departs: only a download that was recorded gives its entry back.
DepartsIfSaved(r) ==
  active' = IF saved[asker[r].clip] = asker[r].dest
            THEN [active EXCEPT ![asker[r].clip] = NoAsker] ELSE active
\* The deferred Delete, of whatever is entered by then.
Departs(r) == active' = [active EXCEPT ![asker[r].clip] = NoAsker]

DownloadEnds(r) ==
  /\ asker[r].at = "leaving"
  /\ AskerAnswered(r) /\ Departs(r)
  /\ UNCHANGED <<canceller, temp, stored, saved, slipped, contested>>

SingleNext ==
  \/ \E r \in Askers :
       \/ \E v \in Clips, force \in BOOLEAN : AskerLooks(r, v, force)
       \/ AskerPasses(r) \/ AskerEnters(r)
       \/ TransferBegins(r) \/ TransferDone(r) \/ TransferFails(r)
       \/ DownloadChecks(r) \/ DownloadMoves(r) \/ DownloadRecords(r) \/ DownloadEnds(r)
  \/ \E c \in Cancellers : CancelDeletes(c) \/ \E v \in Clips : CancelFires(c, v)

SingleSpec == SingleInit /\ [][SingleNext]_singleVars

-----------------------------------------------------------------------------
Spots == Seq(Nat)
Contents == {"cut", "whole", "mixed"}

SingleTypeOK ==
  /\ asker \in [Askers -> [at : {"unsent", "looked", "passed", "started", "loading", "loaded", "moving",
                                 "moved", "leaving", "answered"},
                           clip : Clips \cup {NoClip}, force : BOOLEAN, spot : Spots, dest : Spots]]
  /\ canceller \in [Cancellers -> [at : {"unsent", "firing", "answered"}, clip : Clips \cup {NoClip}]]
  /\ active \in [Clips -> Askers \cup {NoAsker}]
  /\ \A f \in temp \cup stored : f \in [spot : Spots, clip : Clips, content : Contents]
  /\ saved \in [Clips -> Spots]
  /\ slipped \subseteq Clips /\ \A p \in contested : p \in Spots

\* activeDownloads keeps the downloads of one video apart and is given back: a video is
\* entered only while a download of it runs, or nobody could ever ask for it again; no
\* temporary file outlives its download; two downloads of a video run at once only
\* if it was cancelled before, which deletes the entry of a download that still ends,
\* or if both had passed the test before either was entered; and but for that, and for
\* two downloads about to rename to one name, a recorded video is whole on disk
\* under the name recorded.
DownloadsApart ==
  /\ \A v \in Clips : active[v] # NoAsker => Downloading(active[v]) /\ asker[active[v]].clip = v
  /\ \A f \in temp : \E r \in Askers : Downloading(r) /\ IsTemp(f, r)
  /\ \A r, s \in Askers : Downloading(r) /\ Downloading(s) /\ asker[r].clip = asker[s].clip =>
       r = s \/ asker[r].clip \in slipped
  /\ \A v \in Clips : saved[v] # NoSpot =>
       v \in slipped \/ saved[v] \in contested
         \/ [spot |-> saved[v], clip |-> v, content |-> "whole"] \in stored
=============================================================================
