------------------------ MODULE SingleDownloadProofs ------------------------
(***************************************************************************)
(* DownloadsApart of SingleDownload, for any requests, videos and cancels. *)
(*                                                                         *)
(* The argument: a download of a video that has not slipped is the one its *)
(* entry names, so that a second request for the video cannot pass while   *)
(* it runs; hence nobody else writes to its temporary file, and what it    *)
(* moves is whole.  A name that is about to be renamed to is free unless   *)
(* it is contested, so that a rename replaces no recorded file.            *)
(*                                                                         *)
(* The second half is DamageExplained of Uploads, for any uploads, chunks, *)
(* merges, saves and parts, with one merge at a time: a part that is not   *)
(* whole is being rewritten or belongs to a damaged upload, so a merge     *)
(* that copied every part copied whole ones; and the one merge engaged     *)
(* holds the newest file of its name unless a save took the name after it. *)
(***************************************************************************)
EXTENDS SingleDownload, Uploads, FiniteSetTheorems, WellFoundedInduction, TLAPS

InTransfer == {"loading", "loaded", "moving"}
AskerType == [at : {"unsent", "looked", "passed", "started", "loading", "loaded", "moving", "moved",
                    "leaving", "answered"},
              clip : Clips \cup {NoClip}, force : BOOLEAN, spot : Spots, dest : Spots]
FileType  == [spot : Spots, clip : Clips, content : Contents]

TypeInv ==
  /\ asker \in [Askers -> AskerType]
  /\ canceller \in [Cancellers -> [at : {"unsent", "firing", "answered"}, clip : Clips \cup {NoClip}]]
  /\ active \in [Clips -> Askers \cup {NoAsker}]
  /\ temp \subseteq FileType /\ IsFiniteSet(temp)
  /\ stored \subseteq FileType /\ IsFiniteSet(stored)
  /\ saved \in [Clips -> Spots]
  /\ \A r \in Askers : asker[r].at \notin {"unsent", "answered"} => asker[r].clip \in Clips
  /\ \A c \in Cancellers : canceller[c].at = "firing" => canceller[c].clip \in Clips

\* What is entered runs, and what runs is entered unless its video has slipped.
EntryInv ==
  /\ \A v \in Clips : active[v] # NoAsker => Downloading(active[v]) /\ asker[active[v]].clip = v
  /\ \A r \in Askers : Downloading(r) => asker[r].clip \in slipped \/ active[asker[r].clip] = r

\* Of those that have passed the test, or run, no two are for a video that has not slipped.
Within(r) == asker[r].at = "passed" \/ Downloading(r)
ApartInv ==
  \A r, s \in Askers : Within(r) /\ Within(s) /\ asker[r].clip = asker[s].clip =>
    r = s \/ asker[r].clip \in slipped

\* A temporary file is somebody's, and his alone unless its video has slipped.
TempInv ==
  /\ \A f \in temp : \E r \in Askers : asker[r].at \in InTransfer /\ IsTemp(f, r)
  /\ \A r \in Askers, f \in temp : IsTemp(f, r) /\ asker[r].clip \notin slipped =>
       /\ asker[r].at = "loading" => f.content = "cut"
       /\ asker[r].at \in {"loaded", "moving"} => f.content = "whole"

\* A name that is about to be taken is free, and one request's, unless it is contested.
NameInv ==
  /\ \A r \in Askers : asker[r].at = "moving" => asker[r].dest \in contested \/ ~SpotTaken(asker[r].dest)
  /\ \A r, s \in Askers : asker[r].at = "moving" /\ asker[s].at = "moving" /\ asker[r].dest = asker[s].dest =>
       r = s \/ asker[r].dest \in contested

\* What was moved is there, and so is what was recorded.
Kept(v, p) ==
  v \in slipped \/ p \in contested \/ [spot |-> p, clip |-> v, content |-> "whole"] \in stored
RecordInv ==
  /\ \A r \in Askers : asker[r].at = "moved" => Kept(asker[r].clip, asker[r].dest)
  /\ \A v \in Clips : saved[v] # NoSpot => Kept(v, saved[v])

Inv == TypeInv /\ EntryInv /\ ApartInv /\ TempInv /\ NameInv /\ RecordInv

\* One request moves on, or is answered.
LEMMA AskerMoves ==
  ASSUME asker \in [Askers -> AskerType], NEW r \in Askers,
         NEW at \in {"unsent", "looked", "passed", "started", "loading", "loaded", "moving", "moved",
                     "leaving", "answered"}
  PROVE  [asker EXCEPT ![r].at = at] \in [Askers -> AskerType]
<1>1. [asker[r] EXCEPT !.at = at] \in AskerType
  BY DEF AskerType
<1> QED BY <1>1

LEMMA NoSpotType == NoSpot \in Spots /\ <<>> \in Spots
BY DEF NoSpot, Spots

\* A free name is a name, and free.
LEMMA FreeSpotsFree ==
  ASSUME IsFiniteSet(stored), NEW p \in Spots, NEW q \in FreeSpots(p)
  PROVE  q \in Spots /\ ~SpotTaken(q)
<1>1. Cardinality(stored) \in Nat
  BY FS_CardinalityType
<1>2. PICK k \in 0..Cardinality(stored) : q = SpotCopy(p, k) /\ ~SpotTaken(SpotCopy(p, k))
  BY DEF FreeSpots
<1>3. k \in Nat
  BY <1>1
<1> QED BY <1>2, <1>3 DEF SpotCopy, Spots

\* The temporary files stay finitely many, and well typed.
LEMMA TempStays ==
  ASSUME TypeInv, NEW r \in Askers, NEW content \in Contents, asker[r].clip \in Clips
  PROVE  /\ WithoutTemp(r) \subseteq FileType /\ IsFiniteSet(WithoutTemp(r))
         /\ LET f == [spot |-> asker[r].spot, clip |-> asker[r].clip, content |-> content]
            IN  /\ WithoutTemp(r) \cup {f} \subseteq FileType /\ IsFiniteSet(WithoutTemp(r) \cup {f})
<1> DEFINE f == [spot |-> asker[r].spot, clip |-> asker[r].clip, content |-> content]
<1>1. WithoutTemp(r) \subseteq temp
  BY DEF WithoutTemp
<1>2. IsFiniteSet(WithoutTemp(r)) /\ WithoutTemp(r) \subseteq FileType
  BY <1>1, FS_Subset DEF TypeInv
<1>3. f \in FileType
  BY DEF TypeInv, AskerType, FileType
<1>4. IsFiniteSet(WithoutTemp(r) \cup {f})
  BY <1>2, FS_AddElement
<1> QED BY <1>2, <1>3, <1>4

\* A download of a video that has not slipped runs alone.
LEMMA RunsAlone ==
  ASSUME ApartInv, NEW r \in Askers, Downloading(r), asker[r].clip \notin slipped
  PROVE  /\ \A s \in Askers \ {r} : asker[s].clip = asker[r].clip => ~Downloading(s)
         /\ ~SharesTemp(r)
<1>1. \A s \in Askers \ {r} : asker[s].clip = asker[r].clip => ~Downloading(s)
  BY DEF ApartInv, Within
<1> QED BY <1>1 DEF SharesTemp, Downloading

LEMMA InitInv == SingleInit => Inv
<1> SUFFICES ASSUME SingleInit PROVE Inv
  OBVIOUS
<1>1. asker \in [Askers -> AskerType]
  BY NoSpotType DEF SingleInit, NotAsked, AskerType
<1>2. IsFiniteSet({})
  BY FS_EmptySet
<1>3. TypeInv
  BY <1>1, <1>2, NoSpotType DEF SingleInit, NotAsked, TypeInv
<1>4. EntryInv /\ ApartInv
  BY DEF SingleInit, NotAsked, EntryInv, ApartInv, Within, Downloading
<1>5. TempInv /\ NameInv
  BY DEF SingleInit, NotAsked, TempInv, NameInv
<1>6. RecordInv
  BY DEF SingleInit, NotAsked, RecordInv
<1> QED BY <1>3, <1>4, <1>5, <1>6 DEF Inv

\* The requests.
LEMMA RequestKeepsInv ==
  ASSUME Inv, NEW r \in Askers, (\E v \in Clips, force \in BOOLEAN : AskerLooks(r, v, force)) \/ AskerPasses(r) \/ AskerEnters(r)
  PROVE  Inv'
<1>1. CASE \E v \in Clips, force \in BOOLEAN : AskerLooks(r, v, force)
  <2>1. /\ asker[r].at = "unsent"
        /\ UNCHANGED <<canceller, active, temp, stored, saved, slipped, contested>>
    BY <1>1 DEF AskerLooks
  <2>2. \/ asker' = [asker EXCEPT ![r] = [NotAsked EXCEPT !.at = "answered"]]
        \/ \E v \in Clips, force \in BOOLEAN, p \in Spots :
             asker' = [asker EXCEPT ![r] = [at |-> "looked", clip |-> v, force |-> force, spot |-> p,
                                            dest |-> NoSpot]]
    BY <1>1, FreeSpotsFree, NoSpotType DEF AskerLooks, AskerAnswered, Inv, TypeInv
  <2>3. asker' \in [Askers -> AskerType]
    <3>1. [NotAsked EXCEPT !.at = "answered"] \in AskerType
      BY NoSpotType DEF NotAsked, AskerType
    <3>2. \A v \in Clips, force \in BOOLEAN, p \in Spots :
            [at |-> "looked", clip |-> v, force |-> force, spot |-> p, dest |-> NoSpot] \in AskerType
      BY NoSpotType DEF AskerType
    <3> QED BY <2>2, <3>1, <3>2 DEF Inv, TypeInv
  <2>4. /\ asker'[r].at \in {"answered", "looked"} /\ (asker'[r].at = "looked" => asker'[r].clip \in Clips)
        /\ \A s \in Askers : s # r => asker'[s] = asker[s]
    BY <2>2 DEF NotAsked, Inv, TypeInv
  <2>5. TypeInv'
    BY <2>1, <2>2, <2>3, <2>4 DEF Inv, TypeInv, AskerType
  <2>6. EntryInv'
    BY <2>1, <2>2, <2>3, <2>4 DEF Inv, TypeInv, EntryInv, ApartInv, Within, Downloading
  <2>7. ApartInv'
    BY <2>1, <2>2, <2>3, <2>4 DEF Inv, TypeInv, EntryInv, ApartInv, Within, Downloading
  <2>8. TempInv'
    BY <2>1, <2>2, <2>3, <2>4 DEF Inv, TypeInv, ApartInv, TempInv, InTransfer, IsTemp, Within, Downloading
  <2>9. NameInv'
    BY <2>1, <2>2, <2>3, <2>4 DEF Inv, TypeInv, NameInv, SpotTaken
  <2>10. RecordInv'
    BY <2>1, <2>2, <2>3, <2>4 DEF Inv, TypeInv, TempInv, NameInv, RecordInv, Kept, SpotTaken
  <2> QED BY <2>5, <2>6, <2>7, <2>8, <2>9, <2>10 DEF Inv
<1>2. CASE AskerPasses(r)
  <2>1. /\ asker[r].at = "looked" /\ asker[r].clip \in Clips
        /\ UNCHANGED <<canceller, active, temp, stored, saved, contested>>
    BY <1>2 DEF AskerPasses, Inv, TypeInv
  <2>2. \/ asker' = [asker EXCEPT ![r] = [NotAsked EXCEPT !.at = "answered"]] /\ slipped' = slipped
        \/ /\ active[asker[r].clip] = NoAsker /\ asker' = [asker EXCEPT ![r].at = "passed"]
           /\ slipped' = IF \E s \in Askers : asker[s].at = "passed" /\ asker[s].clip = asker[r].clip
                         THEN slipped \cup {asker[r].clip} ELSE slipped
    BY <1>2 DEF AskerPasses, AlreadyActive, AskerAnswered, AskerAt
  <2>3. asker' \in [Askers -> AskerType]
    <3>1. [NotAsked EXCEPT !.at = "answered"] \in AskerType
      BY NoSpotType DEF NotAsked, AskerType
    <3>2. asker \in [Askers -> AskerType]
      BY DEF Inv, TypeInv
    <3>3. CASE asker' = [asker EXCEPT ![r] = [NotAsked EXCEPT !.at = "answered"]]
      BY <3>1, <3>2, <3>3
    <3>4. CASE asker' = [asker EXCEPT ![r].at = "passed"]
      BY <3>2, <3>4, AskerMoves
    <3> QED BY <2>2, <3>3, <3>4
  <2>4. /\ \/ asker'[r].at = "answered"
           \/ /\ asker'[r].at = "passed" /\ asker'[r].clip = asker[r].clip /\ active[asker[r].clip] = NoAsker
              /\ \A s \in Askers : asker[s].at = "passed" /\ asker[s].clip = asker[r].clip =>
                   asker[r].clip \in slipped'
        /\ \A s \in Askers : s # r => asker'[s] = asker[s]
    BY <2>2 DEF NotAsked, Inv, TypeInv, AskerType
  <2>5. slipped \subseteq slipped'
    BY <2>2
  <2>6. TypeInv'
    BY <2>1, <2>2, <2>3, <2>4, <2>5 DEF Inv, TypeInv, AskerType
  <2>7. EntryInv'
    BY <2>1, <2>2, <2>3, <2>4, <2>5 DEF Inv, TypeInv, EntryInv, ApartInv, Within, Downloading
  <2>8. ApartInv'
    <3> SUFFICES ASSUME NEW s \in Askers, NEW t \in Askers, Within(s)', Within(t)', asker'[s].clip = asker'[t].clip
                 PROVE  s = t \/ asker'[s].clip \in slipped'
      BY DEF ApartInv
    <3>1. CASE asker'[r].at = "answered"
      <4>1. s # r /\ t # r
        BY <3>1 DEF Within, Downloading
      <4> QED BY <2>1, <2>2, <2>3, <2>4, <2>5, <4>1 DEF Inv, ApartInv, Within, Downloading
    <3>2. CASE asker'[r].at = "passed"
      <4>1. asker'[r].clip = asker[r].clip /\ active[asker[r].clip] = NoAsker
        BY <2>4, <3>2
      <4>2. ASSUME NEW q \in Askers, q # r, Within(q)', asker'[q].clip = asker'[r].clip
            PROVE  asker[r].clip \in slipped'
        <5>1. Within(q) /\ asker[q].clip = asker[r].clip
          BY <2>4, <4>1, <4>2 DEF Within, Downloading
        <5>2. CASE asker[q].at = "passed"
          BY <2>4, <3>2, <5>1, <5>2
        <5>3. CASE Downloading(q)
          <6>1. asker[q].clip \in slipped \/ active[asker[q].clip] = q
            BY <5>3 DEF Inv, EntryInv
          <6> QED BY <2>5, <4>1, <5>1, <6>1, SingleAssumption
        <5> QED BY <5>1, <5>2, <5>3 DEF Within
      <4>3. CASE s # r /\ t # r
        BY <2>1, <2>2, <2>3, <2>4, <2>5, <4>3 DEF Inv, ApartInv, Within, Downloading
      <4>4. CASE s = r \/ t = r
        BY <4>1, <4>2, <4>4
      <4> QED BY <4>3, <4>4
    <3> QED BY <2>4, <3>1, <3>2
  <2>9. TempInv'
    BY <2>1, <2>2, <2>3, <2>4, <2>5 DEF Inv, TypeInv, ApartInv, TempInv, InTransfer, IsTemp, Within, Downloading
  <2>10. NameInv'
    BY <2>1, <2>2, <2>3, <2>4, <2>5 DEF Inv, TypeInv, NameInv, SpotTaken
  <2>11. RecordInv'
    BY <2>1, <2>2, <2>3, <2>4, <2>5 DEF Inv, TypeInv, TempInv, NameInv, RecordInv, Kept, SpotTaken
  <2> QED BY <2>6, <2>7, <2>8, <2>9, <2>10, <2>11 DEF Inv
<1>3. CASE AskerEnters(r)
  <2>1. /\ asker[r].at = "passed" /\ asker[r].clip \in Clips /\ asker'[r].at = "started"
        /\ asker'[r].clip = asker[r].clip /\ asker'[r].spot = asker[r].spot /\ asker'[r].dest = asker[r].dest
        /\ \A s \in Askers : s # r => asker'[s] = asker[s]
    BY <1>3 DEF AskerEnters, AskerAt, Inv, TypeInv, AskerType
  <2>2. asker' \in [Askers -> AskerType]
    BY <1>3, AskerMoves DEF AskerEnters, AskerAt, Inv, TypeInv
  <2>3. /\ active' = [active EXCEPT ![asker[r].clip] = r]
        /\ UNCHANGED <<canceller, temp, stored, saved, slipped, contested>>
    BY <1>3 DEF AskerEnters
  <2>4. TypeInv'
    BY <2>1, <2>2, <2>3 DEF Inv, TypeInv, AskerType
  <2>5. EntryInv'
    BY <2>1, <2>2, <2>3 DEF Inv, TypeInv, EntryInv, ApartInv, Within, Downloading
  <2>6. ApartInv'
    BY <2>1, <2>2, <2>3 DEF Inv, TypeInv, EntryInv, ApartInv, Within, Downloading
  <2>7. TempInv'
    BY <2>1, <2>2, <2>3 DEF Inv, TypeInv, ApartInv, TempInv, InTransfer, IsTemp, Within, Downloading
  <2>8. NameInv'
    BY <2>1, <2>2, <2>3 DEF Inv, TypeInv, NameInv, SpotTaken
  <2>9. RecordInv'
    BY <2>1, <2>2, <2>3 DEF Inv, TypeInv, TempInv, NameInv, RecordInv, Kept, SpotTaken
  <2> QED BY <2>4, <2>5, <2>6, <2>7, <2>8, <2>9 DEF Inv
<1> QED BY <1>1, <1>2, <1>3

\* The cancellations.
LEMMA CancelKeepsInv ==
  ASSUME Inv, NEW c \in Cancellers, (\E v \in Clips : CancelFires(c, v)) \/ CancelDeletes(c)
  PROVE  Inv'
<1>1. CASE \E v \in Clips : CancelFires(c, v)
  <2>1. UNCHANGED <<asker, active, temp, stored, saved, slipped, contested>>
    BY <1>1 DEF CancelFires
  <2>2. /\ canceller' \in [Cancellers -> [at : {"unsent", "firing", "answered"}, clip : Clips \cup {NoClip}]]
        /\ \A d \in Cancellers : canceller'[d].at = "firing" => canceller'[d].clip \in Clips
    BY <1>1 DEF CancelFires, Inv, TypeInv
  <2>3. TypeInv'
    BY <2>1, <2>2 DEF Inv, TypeInv, AskerType
  <2>4. EntryInv'
    BY <2>1, <2>2 DEF Inv, TypeInv, EntryInv, ApartInv, Within, Downloading
  <2>5. ApartInv'
    BY <2>1, <2>2 DEF Inv, TypeInv, EntryInv, ApartInv, Within, Downloading
  <2>6. TempInv'
    BY <2>1, <2>2 DEF Inv, TypeInv, ApartInv, TempInv, InTransfer, IsTemp, Within, Downloading
  <2>7. NameInv'
    BY <2>1, <2>2 DEF Inv, TypeInv, NameInv, SpotTaken
  <2>8. RecordInv'
    BY <2>1, <2>2 DEF Inv, TypeInv, TempInv, NameInv, RecordInv, Kept, SpotTaken
  <2> QED BY <2>3, <2>4, <2>5, <2>6, <2>7, <2>8 DEF Inv
<1>2. CASE CancelDeletes(c)
  <2>1. /\ canceller[c].clip \in Clips /\ active' = [active EXCEPT ![canceller[c].clip] = NoAsker]
        /\ slipped' = slipped \cup {canceller[c].clip}
        /\ UNCHANGED <<asker, temp, stored, saved, contested>>
    BY <1>2 DEF CancelDeletes, Inv, TypeInv
  <2>2. /\ canceller' \in [Cancellers -> [at : {"unsent", "firing", "answered"}, clip : Clips \cup {NoClip}]]
        /\ \A d \in Cancellers : canceller'[d].at = "firing" => canceller'[d].clip \in Clips
    BY <1>2 DEF CancelDeletes, Inv, TypeInv
  <2>3. TypeInv'
    BY <2>1, <2>2 DEF Inv, TypeInv, AskerType
  <2>4. EntryInv'
    BY <2>1, <2>2 DEF Inv, TypeInv, EntryInv, ApartInv, Within, Downloading
  <2>5. ApartInv'
    BY <2>1, <2>2 DEF Inv, TypeInv, EntryInv, ApartInv, Within, Downloading
  <2>6. TempInv'
    BY <2>1, <2>2 DEF Inv, TypeInv, ApartInv, TempInv, InTransfer, IsTemp, Within, Downloading
  <2>7. NameInv'
    BY <2>1, <2>2 DEF Inv, TypeInv, NameInv, SpotTaken
  <2>8. RecordInv'
    BY <2>1, <2>2 DEF Inv, TypeInv, TempInv, NameInv, RecordInv, Kept, SpotTaken
  <2> QED BY <2>3, <2>4, <2>5, <2>6, <2>7, <2>8 DEF Inv
<1> QED BY <1>1, <1>2

\* The goroutine, as long as the engine has its file.
LEMMA TransferKeepsInv ==
  ASSUME Inv, NEW r \in Askers, TransferBegins(r) \/ TransferDone(r) \/ TransferFails(r)
  PROVE  Inv'
<1>1. CASE TransferBegins(r)
  <2>1. /\ asker[r].at = "started" /\ asker[r].clip \in Clips /\ asker'[r].at \in {"loading", "leaving"}
        /\ asker'[r].clip = asker[r].clip /\ asker'[r].spot = asker[r].spot /\ asker'[r].dest = asker[r].dest
        /\ \A s \in Askers : s # r => asker'[s] = asker[s]
    BY <1>1 DEF TransferBegins, Abandons, AskerAt, Inv, TypeInv, AskerType
  <2>2. asker' \in [Askers -> AskerType]
    <3>1. asker \in [Askers -> AskerType]
      BY DEF Inv, TypeInv
    <3>2. asker' = [asker EXCEPT ![r].at = "loading"] \/ asker' = [asker EXCEPT ![r].at = "leaving"]
      BY <1>1 DEF TransferBegins, Abandons, AskerAt
    <3>3. CASE asker' = [asker EXCEPT ![r].at = "loading"]
      BY <3>1, <3>3, AskerMoves
    <3>4. CASE asker' = [asker EXCEPT ![r].at = "leaving"]
      BY <3>1, <3>4, AskerMoves
    <3> QED BY <3>2, <3>3, <3>4
  <2>3. UNCHANGED <<canceller, active, stored, saved, slipped, contested>>
    BY <1>1 DEF TransferBegins
  <2>4. \/ asker'[r].at = "leaving" /\ temp' = WithoutTemp(r)
        \/ asker'[r].at = "loading" /\ \E content \in Contents :
             /\ TempBecomes(r, content)
             /\ content = "cut" \/ SharesTemp(r)
    BY <1>1 DEF TransferBegins, Abandons, AskerAt, Contents, Inv, TypeInv, AskerType
  <2>5. TypeInv'
    <3>1. asker[r].clip \in Clips
      BY <2>1, <2>2, <2>3, <2>4
    <3>2. temp' \subseteq FileType /\ IsFiniteSet(temp')
      BY <2>1, <2>2, <2>3, <2>4, <3>1, TempStays DEF Inv, TempBecomes, Contents
    <3> QED BY <2>1, <2>2, <2>3, <2>4, <3>2 DEF Inv, TypeInv, AskerType
  <2>6. EntryInv'
    BY <2>1, <2>2, <2>3, <2>4 DEF Inv, TypeInv, EntryInv, ApartInv, Within, Downloading
  <2>7. ApartInv'
    BY <2>1, <2>2, <2>3, <2>4 DEF Inv, TypeInv, EntryInv, ApartInv, Within, Downloading
  <2>8. TempInv'
    <3>1. \A s \in Askers : asker'[s].clip = asker[s].clip /\ asker'[s].spot = asker[s].spot
      BY <2>1, <2>2, <2>3, <2>4
    <3>2. \A s \in Askers, f \in temp \cup temp' : IsTemp(f, s)' <=> IsTemp(f, s)
      BY <3>1 DEF IsTemp
    <3>3. Downloading(r)
      BY <2>1, <2>2, <2>3, <2>4 DEF Downloading
    <3>4. ASSUME NEW f \in temp'
          PROVE  \E s \in Askers : asker'[s].at \in InTransfer /\ IsTemp(f, s)'
      <4>1. CASE f \in temp
        <5>1. PICK s \in Askers : asker[s].at \in InTransfer /\ IsTemp(f, s)
          BY <4>1 DEF Inv, TempInv
        <5>2. s # r => asker'[s].at \in InTransfer /\ IsTemp(f, s)'
          BY <2>1, <2>2, <2>3, <2>4, <3>2, <5>1
        <5>3. IsTemp(f, r)' => asker'[r].at \in InTransfer
          BY <2>1, <2>2, <2>3, <2>4, <3>2, <4>1 DEF WithoutTemp, InTransfer, TempBecomes
        <5> QED BY <3>2, <5>1, <5>2, <5>3
      <4>2. CASE f \notin temp
        <5>1. asker'[r].at \in InTransfer /\ f.clip = asker[r].clip /\ f.spot = asker[r].spot
          BY <2>1, <2>2, <2>3, <2>4, <4>2 DEF InTransfer, WithoutTemp, TempBecomes
        <5> QED BY <3>2, <5>1 DEF IsTemp
      <4> QED BY <4>1, <4>2
    <3>5. ASSUME NEW s \in Askers, NEW f \in temp', IsTemp(f, s)', asker'[s].clip \notin slipped'
          PROVE  /\ asker'[s].at = "loading" => f.content = "cut"
                 /\ asker'[s].at \in {"loaded", "moving"} => f.content = "whole"
      <4>1. asker[s].clip \notin slipped /\ IsTemp(f, s)
        BY <2>1, <2>2, <2>3, <2>4, <3>1, <3>2, <3>5
      <4>2. CASE f \in WithoutTemp(r)
        <5>1. s # r /\ f \in temp
          BY <4>1, <4>2 DEF WithoutTemp
        <5> QED BY <2>1, <2>2, <2>3, <2>4, <4>1, <5>1 DEF Inv, TempInv
      <4>3. CASE f \notin WithoutTemp(r)
        <5>1. f.clip = asker[r].clip /\ f.spot = asker[r].spot
          BY <2>1, <2>2, <2>3, <2>4, <4>3 DEF TempBecomes
        <5>2. asker[r].clip = asker[s].clip
          BY <4>1, <5>1 DEF IsTemp
        <5>3. CASE s # r
          <6>1. ~Downloading(s)
            BY <3>3, <4>1, <5>2, <5>3, RunsAlone DEF Inv
          <6> QED BY <2>1, <2>2, <2>3, <2>4, <5>3, <6>1 DEF Downloading
        <5>4. CASE s = r
          <6>1. ~SharesTemp(r)
            BY <3>3, <4>1, <5>4, RunsAlone DEF Inv
          <6> QED BY <2>1, <2>2, <2>3, <2>4, <4>3, <5>4, <6>1 DEF TempBecomes
        <5> QED BY <5>3, <5>4
      <4> QED BY <4>2, <4>3
    <3> QED BY <3>4, <3>5 DEF TempInv
  <2>9. NameInv'
    BY <2>1, <2>2, <2>3, <2>4 DEF Inv, TypeInv, NameInv, SpotTaken
  <2>10. RecordInv'
    BY <2>1, <2>2, <2>3, <2>4 DEF Inv, TypeInv, TempInv, NameInv, RecordInv, Kept, SpotTaken
  <2> QED BY <2>5, <2>6, <2>7, <2>8, <2>9, <2>10 DEF Inv
<1>2. CASE TransferDone(r)
  <2>1. /\ asker[r].at = "loading" /\ asker[r].clip \in Clips /\ asker'[r].at = "loaded"
        /\ asker'[r].clip = asker[r].clip /\ asker'[r].spot = asker[r].spot /\ asker'[r].dest = asker[r].dest
        /\ \A s \in Askers : s # r => asker'[s] = asker[s]
    BY <1>2 DEF TransferDone, AskerAt, Inv, TypeInv, AskerType
  <2>2. asker' \in [Askers -> AskerType]
    BY <1>2, AskerMoves DEF TransferDone, AskerAt, Inv, TypeInv
  <2>3. UNCHANGED <<canceller, active, stored, saved, slipped, contested>>
    BY <1>2 DEF TransferDone
  <2>4. \/ temp' = temp /\ ~HasTemp(r)
        \/ \E content \in Contents :
             /\ TempBecomes(r, content)
             /\ content = "whole" \/ SharesTemp(r) \/ \E f \in temp : IsTemp(f, r) /\ f.content # "cut"
    BY <1>2 DEF TransferDone, Contents
  <2>5. TypeInv'
    <3>1. asker[r].clip \in Clips
      BY <2>1, <2>2, <2>3, <2>4
    <3>2. CASE temp' = temp
      BY <2>1, <2>2, <2>3, <2>4, <3>2 DEF Inv, TypeInv, AskerType
    <3>3. CASE \E content \in Contents : TempBecomes(r, content)
      <4>1. temp' \subseteq FileType /\ IsFiniteSet(temp')
        BY <3>1, <3>3, TempStays DEF Inv, TempBecomes
      <4> QED BY <2>1, <2>2, <2>3, <2>4, <4>1 DEF Inv, TypeInv, AskerType
    <3> QED BY <2>1, <2>2, <2>3, <2>4, <3>2, <3>3
  <2>6. EntryInv'
    BY <2>1, <2>2, <2>3, <2>4 DEF Inv, TypeInv, EntryInv, ApartInv, Within, Downloading
  <2>7. ApartInv'
    BY <2>1, <2>2, <2>3, <2>4 DEF Inv, TypeInv, EntryInv, ApartInv, Within, Downloading
  <2>8. TempInv'
    <3>1. \A s \in Askers : asker'[s].clip = asker[s].clip /\ asker'[s].spot = asker[s].spot
      BY <2>1, <2>2, <2>3, <2>4
    <3>2. \A s \in Askers, f \in temp \cup temp' : IsTemp(f, s)' <=> IsTemp(f, s)
      BY <3>1 DEF IsTemp
    <3>3. Downloading(r)
      BY <2>1, <2>2, <2>3, <2>4 DEF Downloading
    <3>4. ASSUME NEW f \in temp'
          PROVE  \E s \in Askers : asker'[s].at \in InTransfer /\ IsTemp(f, s)'
      <4>1. CASE f \in temp
        <5>1. PICK s \in Askers : asker[s].at \in InTransfer /\ IsTemp(f, s)
          BY <4>1 DEF Inv, TempInv
        <5>2. s # r => asker'[s].at \in InTransfer /\ IsTemp(f, s)'
          BY <2>1, <2>2, <2>3, <2>4, <3>2, <5>1
        <5>3. IsTemp(f, r)' => asker'[r].at \in InTransfer
          BY <2>1, <2>2, <2>3, <2>4, <3>2, <4>1 DEF WithoutTemp, InTransfer, TempBecomes, HasTemp
        <5> QED BY <3>2, <5>1, <5>2, <5>3
      <4>2. CASE f \notin temp
        <5>1. asker'[r].at \in InTransfer /\ f.clip = asker[r].clip /\ f.spot = asker[r].spot
          BY <2>1, <2>2, <2>3, <2>4, <4>2 DEF InTransfer, WithoutTemp, TempBecomes
        <5> QED BY <3>2, <5>1 DEF IsTemp
      <4> QED BY <4>1, <4>2
    <3>5. ASSUME NEW s \in Askers, NEW f \in temp', IsTemp(f, s)', asker'[s].clip \notin slipped'
          PROVE  /\ asker'[s].at = "loading" => f.content = "cut"
                 /\ asker'[s].at \in {"loaded", "moving"} => f.content = "whole"
      <4>1. asker[s].clip \notin slipped /\ IsTemp(f, s)
        BY <2>1, <2>2, <2>3, <2>4, <3>1, <3>2, <3>5
      <4>2. CASE f \in WithoutTemp(r)
        <5>1. s # r /\ f \in temp
          BY <4>1, <4>2 DEF WithoutTemp
        <5> QED BY <2>1, <2>2, <2>3, <2>4, <4>1, <5>1 DEF Inv, TempInv
      <4>4. CASE temp' = temp /\ ~HasTemp(r)
        <5>1. s # r
          BY <4>1, <4>4 DEF HasTemp
        <5> QED BY <2>1, <2>2, <2>3, <2>4, <4>1, <4>4, <5>1 DEF Inv, TempInv
      <4>3. CASE f \notin WithoutTemp(r) /\ ~(temp' = temp /\ ~HasTemp(r))
        <5>1. f.clip = asker[r].clip /\ f.spot = asker[r].spot
          BY <2>1, <2>2, <2>3, <2>4, <4>3 DEF TempBecomes
        <5>2. asker[r].clip = asker[s].clip
          BY <4>1, <5>1 DEF IsTemp
        <5>3. CASE s # r
          <6>1. ~Downloading(s)
            BY <3>3, <4>1, <5>2, <5>3, RunsAlone DEF Inv
          <6> QED BY <2>1, <2>2, <2>3, <2>4, <5>3, <6>1 DEF Downloading
        <5>4. CASE s = r
          <6>1. ~SharesTemp(r)
            BY <3>3, <4>1, <5>4, RunsAlone DEF Inv
          <6>2. \A g \in temp : IsTemp(g, r) => g.content = "cut"
            BY <2>1, <2>2, <2>3, <2>4, <4>1, <5>4 DEF Inv, TempInv
          <6> QED BY <2>1, <2>2, <2>3, <2>4, <4>3, <5>4, <6>1, <6>2 DEF TempBecomes
        <5> QED BY <5>3, <5>4
      <4> QED BY <4>2, <4>3, <4>4
    <3> QED BY <3>4, <3>5 DEF TempInv
  <2>9. NameInv'
    BY <2>1, <2>2, <2>3, <2>4 DEF Inv, TypeInv, NameInv, SpotTaken
  <2>10. RecordInv'
    BY <2>1, <2>2, <2>3, <2>4 DEF Inv, TypeInv, TempInv, NameInv, RecordInv, Kept, SpotTaken
  <2> QED BY <2>5, <2>6, <2>7, <2>8, <2>9, <2>10 DEF Inv
<1>3. CASE TransferFails(r)
  <2>1. /\ asker[r].at = "loading" /\ asker[r].clip \in Clips /\ asker'[r].at = "leaving"
        /\ asker'[r].clip = asker[r].clip /\ asker'[r].spot = asker[r].spot /\ asker'[r].dest = asker[r].dest
        /\ \A s \in Askers : s # r => asker'[s] = asker[s]
    BY <1>3 DEF TransferFails, AskerAt, Inv, TypeInv, AskerType, Abandons
  <2>2. asker' \in [Askers -> AskerType]
    BY <1>3, AskerMoves DEF TransferFails, AskerAt, Inv, TypeInv, Abandons
  <2>3. UNCHANGED <<canceller, active, stored, saved, slipped, contested>>
    BY <1>3 DEF TransferFails
  <2>4. temp' = WithoutTemp(r)
    BY <1>3 DEF TransferFails, Abandons
  <2>5. TypeInv'
    <3>1. asker[r].clip \in Clips
      BY <2>1, <2>2, <2>3, <2>4
    <3>2. temp' \subseteq FileType /\ IsFiniteSet(temp')
      BY <2>1, <2>2, <2>3, <2>4, <3>1, TempStays DEF Inv, Contents
    <3> QED BY <2>1, <2>2, <2>3, <2>4, <3>2 DEF Inv, TypeInv, AskerType
  <2>6. EntryInv'
    BY <2>1, <2>2, <2>3, <2>4 DEF Inv, TypeInv, EntryInv, ApartInv, Within, Downloading
  <2>7. ApartInv'
    BY <2>1, <2>2, <2>3, <2>4 DEF Inv, TypeInv, EntryInv, ApartInv, Within, Downloading
  <2>8. TempInv'
    <3>1. \A s \in Askers : asker'[s].clip = asker[s].clip /\ asker'[s].spot = asker[s].spot
      BY <2>1, <2>2, <2>3, <2>4
    <3>2. \A s \in Askers, f \in temp \cup temp' : IsTemp(f, s)' <=> IsTemp(f, s)
      BY <3>1 DEF IsTemp
    <3>3. Downloading(r)
      BY <2>1, <2>2, <2>3, <2>4 DEF Downloading
    <3>4. ASSUME NEW f \in temp'
          PROVE  \E s \in Askers : asker'[s].at \in InTransfer /\ IsTemp(f, s)'
      <4>1. CASE f \in temp
        <5>1. PICK s \in Askers : asker[s].at \in InTransfer /\ IsTemp(f, s)
          BY <4>1 DEF Inv, TempInv
        <5>2. s # r => asker'[s].at \in InTransfer /\ IsTemp(f, s)'
          BY <2>1, <2>2, <2>3, <2>4, <3>2, <5>1
        <5>3. IsTemp(f, r)' => asker'[r].at \in InTransfer
          BY <2>1, <2>2, <2>3, <2>4, <3>2, <4>1 DEF WithoutTemp, InTransfer, TempBecomes
        <5> QED BY <3>2, <5>1, <5>2, <5>3
      <4>2. CASE f \notin temp
        <5>1. asker'[r].at \in InTransfer /\ f.clip = asker[r].clip /\ f.spot = asker[r].spot
          BY <2>1, <2>2, <2>3, <2>4, <4>2 DEF InTransfer, WithoutTemp, TempBecomes
        <5> QED BY <3>2, <5>1 DEF IsTemp
      <4> QED BY <4>1, <4>2
    <3>5. ASSUME NEW s \in Askers, NEW f \in temp', IsTemp(f, s)', asker'[s].clip \notin slipped'
          PROVE  /\ asker'[s].at = "loading" => f.content = "cut"
                 /\ asker'[s].at \in {"loaded", "moving"} => f.content = "whole"
      <4>1. asker[s].clip \notin slipped /\ IsTemp(f, s)
        BY <2>1, <2>2, <2>3, <2>4, <3>1, <3>2, <3>5
      <4>2. CASE f \in WithoutTemp(r)
        <5>1. s # r /\ f \in temp
          BY <4>1, <4>2 DEF WithoutTemp
        <5> QED BY <2>1, <2>2, <2>3, <2>4, <4>1, <5>1 DEF Inv, TempInv
      <4> QED BY <2>1, <2>2, <2>3, <2>4, <4>2
    <3> QED BY <3>4, <3>5 DEF TempInv
  <2>9. NameInv'
    BY <2>1, <2>2, <2>3, <2>4 DEF Inv, TypeInv, NameInv, SpotTaken
  <2>10. RecordInv'
    BY <2>1, <2>2, <2>3, <2>4 DEF Inv, TypeInv, TempInv, NameInv, RecordInv, Kept, SpotTaken
  <2> QED BY <2>5, <2>6, <2>7, <2>8, <2>9, <2>10 DEF Inv
<1> QED BY <1>1, <1>2, <1>3

\* The goroutine, from the file to the end.
LEMMA DownloadKeepsInv ==
  ASSUME Inv, NEW r \in Askers, DownloadChecks(r) \/ DownloadMoves(r) \/ DownloadRecords(r) \/ DownloadEnds(r)
  PROVE  Inv'
<1>1. CASE DownloadChecks(r)
  <2>1. /\ asker[r].at = "loaded" /\ asker[r].clip \in Clips /\ asker[r].spot \in Spots /\ IsFiniteSet(stored)
        /\ UNCHANGED <<canceller, active, stored, saved, slipped>>
    BY <1>1 DEF DownloadChecks, Inv, TypeInv, AskerType
  <2>2. \/ \E p \in FreeSpots(asker[r].spot) :
             /\ asker' = [asker EXCEPT ![r].at = "moving", ![r].dest = p] /\ temp' = temp
             /\ contested' = IF \E s \in Askers : asker[s].at = "moving" /\ asker[s].dest = p
                             THEN contested \cup {p} ELSE contested
        \/ asker' = [asker EXCEPT ![r].at = "leaving"] /\ temp' = WithoutTemp(r) /\ contested' = contested
    BY <1>1 DEF DownloadChecks, Abandons, AskerAt
  <2>3. \A p \in FreeSpots(asker[r].spot) : p \in Spots /\ ~SpotTaken(p)
    BY <2>1, FreeSpotsFree
  <2>4. asker' \in [Askers -> AskerType]
    <3>1. \A p \in Spots : [asker[r] EXCEPT !.at = "moving", !.dest = p] \in AskerType
      BY DEF Inv, TypeInv, AskerType
    <3>2. asker \in [Askers -> AskerType]
      BY DEF Inv, TypeInv
    <3>3. ASSUME NEW p \in FreeSpots(asker[r].spot), asker' = [asker EXCEPT ![r].at = "moving", ![r].dest = p]
          PROVE  asker' \in [Askers -> AskerType]
      <4>1. asker' = [asker EXCEPT ![r] = [asker[r] EXCEPT !.at = "moving", !.dest = p]]
        BY <3>2, <3>3 DEF AskerType
      <4> QED BY <2>3, <3>1, <3>2, <4>1
    <3>4. CASE asker' = [asker EXCEPT ![r].at = "leaving"]
      BY <3>2, <3>4, AskerMoves
    <3> QED BY <2>2, <3>3, <3>4
  <2>5. /\ asker'[r].clip = asker[r].clip /\ asker'[r].spot = asker[r].spot
        /\ \A s \in Askers : s # r => asker'[s] = asker[s]
        /\ contested \subseteq contested'
    BY <2>2 DEF Inv, TypeInv, AskerType
  <2>6. \/ /\ asker'[r].at = "moving" /\ ~SpotTaken(asker'[r].dest) /\ temp' = temp
           /\ \A s \in Askers : asker[s].at = "moving" /\ asker[s].dest = asker'[r].dest => asker'[r].dest \in contested'
        \/ asker'[r].at = "leaving" /\ temp' = WithoutTemp(r) /\ contested' = contested
    BY <2>2, <2>3 DEF Inv, TypeInv, AskerType
  <2>7. TypeInv'
    <3>1. temp' = temp \/ temp' = WithoutTemp(r)
      BY <2>2
    <3>2. WithoutTemp(r) \subseteq FileType /\ IsFiniteSet(WithoutTemp(r))
      BY <2>1, TempStays DEF Inv, Contents
    <3>3. temp' \subseteq FileType /\ IsFiniteSet(temp')
      BY <3>1, <3>2 DEF Inv, TypeInv
    <3> QED BY <2>1, <2>2, <2>3, <2>4, <2>5, <2>6, <3>3 DEF Inv, TypeInv, AskerType
  <2>8. EntryInv'
    BY <2>1, <2>2, <2>3, <2>4, <2>5, <2>6 DEF Inv, TypeInv, EntryInv, ApartInv, Within, Downloading
  <2>9. ApartInv'
    BY <2>1, <2>2, <2>3, <2>4, <2>5, <2>6 DEF Inv, TypeInv, EntryInv, ApartInv, Within, Downloading
  <2>10. TempInv'
    <3>1. \A s \in Askers : asker'[s].clip = asker[s].clip /\ asker'[s].spot = asker[s].spot
      BY <2>1, <2>2, <2>3, <2>4, <2>5, <2>6
    <3>2. \A s \in Askers, f \in temp \cup temp' : IsTemp(f, s)' <=> IsTemp(f, s)
      BY <3>1 DEF IsTemp
    <3>3. Downloading(r)
      BY <2>1, <2>2, <2>3, <2>4, <2>5, <2>6 DEF Downloading
    <3>4. ASSUME NEW f \in temp'
          PROVE  \E s \in Askers : asker'[s].at \in InTransfer /\ IsTemp(f, s)'
      <4>1. CASE f \in temp
        <5>1. PICK s \in Askers : asker[s].at \in InTransfer /\ IsTemp(f, s)
          BY <4>1 DEF Inv, TempInv
        <5>2. s # r => asker'[s].at \in InTransfer /\ IsTemp(f, s)'
          BY <2>1, <2>2, <2>3, <2>4, <2>5, <2>6, <3>2, <5>1
        <5>3. IsTemp(f, r)' => asker'[r].at \in InTransfer
          BY <2>1, <2>2, <2>3, <2>4, <2>5, <2>6, <3>2, <4>1 DEF WithoutTemp, InTransfer, TempBecomes
        <5> QED BY <3>2, <5>1, <5>2, <5>3
      <4>2. CASE f \notin temp
        <5>1. asker'[r].at \in InTransfer /\ f.clip = asker[r].clip /\ f.spot = asker[r].spot
          BY <2>1, <2>2, <2>3, <2>4, <2>5, <2>6, <4>2 DEF InTransfer, WithoutTemp, TempBecomes
        <5> QED BY <3>2, <5>1 DEF IsTemp
      <4> QED BY <4>1, <4>2
    <3>5. ASSUME NEW s \in Askers, NEW f \in temp', IsTemp(f, s)', asker'[s].clip \notin slipped'
          PROVE  /\ asker'[s].at = "loading" => f.content = "cut"
                 /\ asker'[s].at \in {"loaded", "moving"} => f.content = "whole"
      <4>1. asker[s].clip \notin slipped /\ IsTemp(f, s) /\ f \in temp
        BY <2>1, <2>2, <2>3, <2>4, <2>5, <2>6, <3>1, <3>2, <3>5 DEF WithoutTemp
      <4>2. CASE s # r
        BY <2>1, <2>2, <2>3, <2>4, <2>5, <2>6, <4>1, <4>2 DEF Inv, TempInv
      <4>3. CASE s = r
        <5>1. f.content = "whole"
          BY <2>1, <2>2, <2>3, <2>4, <2>5, <2>6, <4>1, <4>3 DEF Inv, TempInv
        <5> QED BY <2>1, <2>2, <2>3, <2>4, <2>5, <2>6, <4>3, <5>1
      <4> QED BY <4>2, <4>3
    <3> QED BY <3>4, <3>5 DEF TempInv
  <2>11. NameInv'
    BY <2>1, <2>2, <2>3, <2>4, <2>5, <2>6 DEF Inv, TypeInv, NameInv, SpotTaken
  <2>12. RecordInv'
    BY <2>1, <2>2, <2>3, <2>4, <2>5, <2>6 DEF Inv, TypeInv, TempInv, NameInv, RecordInv, Kept, SpotTaken
  <2> QED BY <2>7, <2>8, <2>9, <2>10, <2>11, <2>12 DEF Inv
<1>2. CASE DownloadMoves(r)
  <2>1. /\ asker[r].at = "moving" /\ asker[r].clip \in Clips /\ asker'[r].at \in {"moved", "leaving"}
        /\ asker'[r].clip = asker[r].clip /\ asker'[r].spot = asker[r].spot /\ asker'[r].dest = asker[r].dest
        /\ \A s \in Askers : s # r => asker'[s] = asker[s]
    BY <1>2 DEF DownloadMoves, Abandons, AskerAt, Inv, TypeInv, AskerType
  <2>2. asker' \in [Askers -> AskerType]
    <3>1. asker \in [Askers -> AskerType]
      BY DEF Inv, TypeInv
    <3>2. asker' = [asker EXCEPT ![r].at = "moved"] \/ asker' = [asker EXCEPT ![r].at = "leaving"]
      BY <1>2 DEF DownloadMoves, Abandons, AskerAt
    <3>3. CASE asker' = [asker EXCEPT ![r].at = "moved"]
      BY <3>1, <3>3, AskerMoves
    <3>4. CASE asker' = [asker EXCEPT ![r].at = "leaving"]
      BY <3>1, <3>4, AskerMoves
    <3> QED BY <3>2, <3>3, <3>4
  <2>3. UNCHANGED <<canceller, active, saved, slipped, contested>>
    BY <1>2 DEF DownloadMoves
  <2>4. temp' = WithoutTemp(r)
    BY <1>2 DEF DownloadMoves, Abandons
  <2>5. \/ asker'[r].at = "leaving" /\ stored' = stored
        \/ /\ asker'[r].at = "moved" /\ HasTemp(r)
           /\ stored' = {f \in stored : f.spot # asker[r].dest}
                          \cup {[f EXCEPT !.spot = asker[r].dest] : f \in {g \in temp : IsTemp(g, r)}}
    BY <1>2 DEF DownloadMoves, Abandons, AskerAt, Inv, TypeInv, AskerType
  <2>6. TypeInv'
    <3>1. WithoutTemp(r) \subseteq FileType /\ IsFiniteSet(WithoutTemp(r))
      BY <2>1, <2>2, <2>3, <2>4, <2>5, TempStays DEF Inv, Contents
    <3>2. stored' \subseteq FileType /\ IsFiniteSet(stored')
      <4>1. CASE stored' = stored
        BY <4>1 DEF Inv, TypeInv
      <4>2. CASE stored' # stored
        <5> DEFINE mine == {g \in temp : IsTemp(g, r)}
                   moved == {[f EXCEPT !.spot = asker[r].dest] : f \in mine}
                   rest == {f \in stored : f.spot # asker[r].dest}
        <5>1. stored' = rest \cup moved
          BY <2>5, <4>2
        <5>2. asker[r].dest \in Spots
          BY DEF Inv, TypeInv, AskerType
        <5>3. mine \subseteq FileType /\ IsFiniteSet(mine)
          BY FS_Subset DEF Inv, TypeInv
        <5>4. moved \subseteq FileType
          BY <5>2, <5>3 DEF FileType
        <5>5. IsFiniteSet(moved)
          <6> DEFINE Named == [g \in mine |-> [g EXCEPT !.spot = asker[r].dest]]
          <6>1. moved = {Named[g] : g \in mine}
            OBVIOUS
          <6>2. Named \in Surjection(mine, moved)
            <7> HIDE DEF mine
            <7> QED BY DEF Surjection
          <6> QED BY <5>3, <6>2, FS_Surjection
        <5>6. rest \subseteq FileType /\ IsFiniteSet(rest)
          BY FS_Subset DEF Inv, TypeInv
        <5> QED BY <5>1, <5>4, <5>5, <5>6, FS_Union
      <4> QED BY <4>1, <4>2
    <3> QED BY <2>1, <2>2, <2>3, <2>4, <2>5, <3>1, <3>2 DEF Inv, TypeInv, AskerType
  <2>7. EntryInv'
    BY <2>1, <2>2, <2>3, <2>4, <2>5 DEF Inv, TypeInv, EntryInv, ApartInv, Within, Downloading
  <2>8. ApartInv'
    BY <2>1, <2>2, <2>3, <2>4, <2>5 DEF Inv, TypeInv, EntryInv, ApartInv, Within, Downloading
  <2>9. TempInv'
    <3>1. \A s \in Askers : asker'[s].clip = asker[s].clip /\ asker'[s].spot = asker[s].spot
      BY <2>1, <2>2, <2>3, <2>4, <2>5
    <3>2. \A s \in Askers, f \in temp \cup temp' : IsTemp(f, s)' <=> IsTemp(f, s)
      BY <3>1 DEF IsTemp
    <3>3. Downloading(r)
      BY <2>1, <2>2, <2>3, <2>4, <2>5 DEF Downloading
    <3>4. ASSUME NEW f \in temp'
          PROVE  \E s \in Askers : asker'[s].at \in InTransfer /\ IsTemp(f, s)'
      <4>1. CASE f \in temp
        <5>1. PICK s \in Askers : asker[s].at \in InTransfer /\ IsTemp(f, s)
          BY <4>1 DEF Inv, TempInv
        <5>2. s # r => asker'[s].at \in InTransfer /\ IsTemp(f, s)'
          BY <2>1, <2>2, <2>3, <2>4, <2>5, <3>2, <5>1
        <5>3. IsTemp(f, r)' => asker'[r].at \in InTransfer
          BY <2>1, <2>2, <2>3, <2>4, <2>5, <3>2, <4>1 DEF WithoutTemp, InTransfer, TempBecomes
        <5> QED BY <3>2, <5>1, <5>2, <5>3
      <4>2. CASE f \notin temp
        <5>1. asker'[r].at \in InTransfer /\ f.clip = asker[r].clip /\ f.spot = asker[r].spot
          BY <2>1, <2>2, <2>3, <2>4, <2>5, <4>2 DEF InTransfer, WithoutTemp, TempBecomes
        <5> QED BY <3>2, <5>1 DEF IsTemp
      <4> QED BY <4>1, <4>2
    <3>5. ASSUME NEW s \in Askers, NEW f \in temp', IsTemp(f, s)', asker'[s].clip \notin slipped'
          PROVE  /\ asker'[s].at = "loading" => f.content = "cut"
                 /\ asker'[s].at \in {"loaded", "moving"} => f.content = "whole"
      <4>1. asker[s].clip \notin slipped /\ IsTemp(f, s)
        BY <2>1, <2>2, <2>3, <2>4, <2>5, <3>1, <3>2, <3>5
      <4>2. CASE f \in WithoutTemp(r)
        <5>1. s # r /\ f \in temp
          BY <4>1, <4>2 DEF WithoutTemp
        <5> QED BY <2>1, <2>2, <2>3, <2>4, <2>5, <4>1, <5>1 DEF Inv, TempInv
      <4> QED BY <2>1, <2>2, <2>3, <2>4, <2>5, <4>2
    <3> QED BY <3>4, <3>5 DEF TempInv
  <2>10. NameInv'
    <3>1. \A f \in stored' : f \in stored \/ f.spot = asker[r].dest
      BY <2>5 DEF Inv, TypeInv, FileType
    <3>2. ASSUME NEW s \in Askers, asker'[s].at = "moving"
          PROVE  /\ s # r /\ asker[s].at = "moving" /\ asker'[s].dest = asker[s].dest
                 /\ asker[s].dest \in contested' \/ ~SpotTaken(asker[s].dest)'
      <4>1. s # r /\ asker[s].at = "moving" /\ asker'[s].dest = asker[s].dest
        BY <2>1, <2>2, <2>3, <2>4, <2>5, <3>2
      <4>2. asker[s].dest \in contested \/ ~SpotTaken(asker[s].dest)
        BY <4>1 DEF Inv, NameInv
      <4>3. asker[s].dest = asker[r].dest => asker[s].dest \in contested
        BY <2>1, <2>2, <2>3, <2>4, <2>5, <4>1 DEF Inv, NameInv
      <4> QED BY <2>1, <2>2, <2>3, <2>4, <2>5, <3>1, <4>1, <4>2, <4>3 DEF SpotTaken
    <3>3. \A s, t \in Askers : asker'[s].at = "moving" /\ asker'[t].at = "moving" /\ asker'[s].dest = asker'[t].dest =>
             s = t \/ asker'[s].dest \in contested'
      BY <2>1, <2>2, <2>3, <2>4, <2>5, <3>2 DEF Inv, NameInv
    <3>4. \A s \in Askers : asker'[s].at = "moving" => asker'[s].dest \in contested' \/ ~\E f \in stored' : f.spot = asker'[s].dest
      <4> TAKE s \in Askers
      <4> HAVE asker'[s].at = "moving"
      <4>1. asker'[s].dest = asker[s].dest /\ (asker[s].dest \in contested' \/ ~SpotTaken(asker[s].dest)')
        BY <3>2
      <4> QED BY <4>1 DEF SpotTaken
    <3> QED BY <3>3, <3>4 DEF NameInv, SpotTaken
  <2>11. RecordInv'
    <3>1. ASSUME NEW v \in Clips, NEW p \in Spots, Kept(v, p)
          PROVE  Kept(v, p)'
      <4>1. asker[r].dest \in contested \/ ~SpotTaken(asker[r].dest)
        BY <2>1, <2>2, <2>3, <2>4, <2>5 DEF Inv, NameInv
      <4>2. CASE p = asker[r].dest
        BY <2>1, <2>2, <2>3, <2>4, <2>5, <3>1, <4>1, <4>2 DEF Kept, SpotTaken
      <4>3. CASE p # asker[r].dest
        BY <2>1, <2>2, <2>3, <2>4, <2>5, <3>1, <4>3 DEF Kept
      <4> QED BY <4>2, <4>3
    <3>2. ASSUME NEW s \in Askers, asker'[s].at = "moved"
          PROVE  Kept(asker[s].clip, asker[s].dest)'
      <4>1. CASE s # r
        <5>1. asker[s].at = "moved" /\ asker[s].clip \in Clips /\ asker[s].dest \in Spots
          <6>1. asker[s].at = "moved" /\ asker[s] \in AskerType
            BY <2>1, <2>2, <2>3, <2>4, <2>5, <3>2, <4>1 DEF Inv, TypeInv
          <6>2. asker[s].clip \in Clips
            BY <6>1 DEF Inv, TypeInv
          <6>3. asker[s].dest \in Spots
            BY <6>1 DEF AskerType
          <6> QED BY <6>1, <6>2, <6>3
        <5>2. asker'[s] = asker[s]
          BY <2>1, <2>2, <2>3, <2>4, <2>5, <4>1
        <5>3. Kept(asker[s].clip, asker[s].dest)
          BY <5>1 DEF Inv, RecordInv
        <5> QED BY <3>1, <5>1, <5>2, <5>3 DEF Kept
      <4>2. CASE s = r /\ asker[r].clip \notin slipped
        <5>1. HasTemp(r)
          BY <2>1, <2>2, <2>3, <2>4, <2>5, <3>2, <4>2
        <5>2. PICK f \in temp : IsTemp(f, r)
          BY <5>1 DEF HasTemp
        <5>3. f \in FileType /\ f.clip = asker[r].clip /\ f.content = "whole"
          BY <2>1, <2>2, <2>3, <2>4, <2>5, <4>2, <5>2 DEF Inv, TypeInv, TempInv, IsTemp
        <5>4. [f EXCEPT !.spot = asker[r].dest] = [spot |-> asker[r].dest, clip |-> asker[r].clip, content |-> "whole"]
          BY <5>3 DEF FileType
        <5>5. [f EXCEPT !.spot = asker[r].dest] \in stored'
          <6>1. stored' = {g \in stored : g.spot # asker[r].dest}
                            \cup {[g EXCEPT !.spot = asker[r].dest] : g \in {h \in temp : IsTemp(h, r)}}
            BY <2>5, <3>2, <4>2
          <6>2. f \in {h \in temp : IsTemp(h, r)}
            BY <5>2
          <6>3. [f EXCEPT !.spot = asker[r].dest] \in {[g EXCEPT !.spot = asker[r].dest] : g \in {h \in temp : IsTemp(h, r)}}
            BY <6>2, Zenon
          <6> QED BY <6>1, <6>3, Zenon
        <5> QED BY <2>1, <2>2, <2>3, <2>4, <2>5, <4>2, <5>4, <5>5 DEF Kept
      <4>3. CASE s = r /\ asker[r].clip \in slipped
        BY <2>1, <2>2, <2>3, <2>4, <2>5, <4>3 DEF Kept
      <4> QED BY <4>1, <4>2, <4>3
    <3>3. ASSUME NEW v \in Clips, saved'[v] # NoSpot
          PROVE  Kept(v, saved[v])'
      <4>1. saved'[v] = saved[v] /\ saved[v] \in Spots
        BY <2>1, <2>2, <2>3, <2>4, <2>5 DEF Inv, TypeInv
      <4> QED BY <3>1, <3>3, <4>1 DEF Inv, RecordInv
    <3>4. \A s \in Askers : asker'[s].clip = asker[s].clip /\ asker'[s].dest = asker[s].dest
      BY <2>1, <2>2, <2>3, <2>4, <2>5
    <3>5. UNCHANGED <<saved, slipped, contested>>
      BY <2>1, <2>2, <2>3, <2>4, <2>5
    <3> QED BY <3>2, <3>3, <3>4, <3>5 DEF RecordInv, Kept
  <2> QED BY <2>6, <2>7, <2>8, <2>9, <2>10, <2>11 DEF Inv
<1>3. CASE DownloadRecords(r)
  <2>1. /\ asker[r].at = "moved" /\ asker[r].clip \in Clips /\ asker'[r].at = "leaving"
        /\ asker'[r].clip = asker[r].clip /\ asker'[r].spot = asker[r].spot /\ asker'[r].dest = asker[r].dest
        /\ \A s \in Askers : s # r => asker'[s] = asker[s]
    BY <1>3 DEF DownloadRecords, AskerAt, Inv, TypeInv, AskerType
  <2>2. asker' \in [Askers -> AskerType]
    BY <1>3, AskerMoves DEF DownloadRecords, AskerAt, Inv, TypeInv
  <2>3. /\ saved' = [saved EXCEPT ![asker[r].clip] = asker[r].dest] \/ saved' = saved
        /\ UNCHANGED <<canceller, active, temp, stored, slipped, contested>>
    BY <1>3 DEF DownloadRecords
  <2>4. TypeInv'
    BY <2>1, <2>2, <2>3 DEF Inv, TypeInv, AskerType
  <2>5. EntryInv'
    BY <2>1, <2>2, <2>3 DEF Inv, TypeInv, EntryInv, ApartInv, Within, Downloading
  <2>6. ApartInv'
    BY <2>1, <2>2, <2>3 DEF Inv, TypeInv, EntryInv, ApartInv, Within, Downloading
  <2>7. TempInv'
    BY <2>1, <2>2, <2>3 DEF Inv, TypeInv, ApartInv, TempInv, InTransfer, IsTemp, Within, Downloading
  <2>8. NameInv'
    BY <2>1, <2>2, <2>3 DEF Inv, TypeInv, NameInv, SpotTaken
  <2>9. RecordInv'
    BY <2>1, <2>2, <2>3 DEF Inv, TypeInv, TempInv, NameInv, RecordInv, Kept, SpotTaken
  <2> QED BY <2>4, <2>5, <2>6, <2>7, <2>8, <2>9 DEF Inv
<1>4. CASE DownloadEnds(r)
  <2>1. /\ asker[r].at = "leaving" /\ asker[r].clip \in Clips
        /\ active' = [active EXCEPT ![asker[r].clip] = NoAsker]
        /\ UNCHANGED <<canceller, temp, stored, saved, slipped, contested>>
    BY <1>4 DEF DownloadEnds, Departs, Inv, TypeInv
  <2>2. asker' = [asker EXCEPT ![r] = [NotAsked EXCEPT !.at = "answered"]]
    BY <1>4 DEF DownloadEnds, AskerAnswered
  <2>3. asker' \in [Askers -> AskerType]
    <3>1. [NotAsked EXCEPT !.at = "answered"] \in AskerType
      BY NoSpotType DEF NotAsked, AskerType
    <3> QED BY <2>2, <3>1 DEF Inv, TypeInv
  <2>4. /\ asker'[r].at = "answered" /\ \A s \in Askers : s # r => asker'[s] = asker[s]
    BY <2>2 DEF NotAsked, Inv, TypeInv
  <2>5. TypeInv'
    BY <2>1, <2>2, <2>3, <2>4 DEF Inv, TypeInv, AskerType
  <2>6. EntryInv'
    BY <2>1, <2>2, <2>3, <2>4 DEF Inv, TypeInv, EntryInv, ApartInv, Within, Downloading
  <2>7. ApartInv'
    BY <2>1, <2>2, <2>3, <2>4 DEF Inv, TypeInv, EntryInv, ApartInv, Within, Downloading
  <2>8. TempInv'
    BY <2>1, <2>2, <2>3, <2>4 DEF Inv, TypeInv, ApartInv, TempInv, InTransfer, IsTemp, Within, Downloading
  <2>9. NameInv'
    BY <2>1, <2>2, <2>3, <2>4 DEF Inv, TypeInv, NameInv, SpotTaken
  <2>10. RecordInv'
    BY <2>1, <2>2, <2>3, <2>4 DEF Inv, TypeInv, TempInv, NameInv, RecordInv, Kept, SpotTaken
  <2> QED BY <2>5, <2>6, <2>7, <2>8, <2>9, <2>10 DEF Inv
<1> QED BY <1>1, <1>2, <1>3, <1>4

\* The invariant is inductive.
LEMMA StepInv == Inv /\ [SingleNext]_singleVars => Inv'
<1> SUFFICES ASSUME Inv, [SingleNext]_singleVars PROVE Inv'
  OBVIOUS
<1>1. CASE UNCHANGED singleVars
  BY <1>1 DEF singleVars, Inv, TypeInv, EntryInv, ApartInv, TempInv, NameInv, RecordInv, Within,
     Downloading, IsTemp, SpotTaken, Kept
<1>2. CASE SingleNext
  BY <1>2, RequestKeepsInv, CancelKeepsInv, TransferKeepsInv, DownloadKeepsInv DEF SingleNext
<1> QED BY <1>1, <1>2

LEMMA InvApart == Inv => DownloadsApart
<1> SUFFICES ASSUME Inv PROVE DownloadsApart
  OBVIOUS
<1>1. \A v \in Clips : active[v] # NoAsker => Downloading(active[v]) /\ asker[active[v]].clip = v
  BY DEF Inv, EntryInv
<1>2. \A f \in temp : \E r \in Askers : Downloading(r) /\ IsTemp(f, r)
  BY DEF Inv, TempInv, InTransfer, Downloading
<1>3. \A r, s \in Askers : Downloading(r) /\ Downloading(s) /\ asker[r].clip = asker[s].clip =>
        r = s \/ asker[r].clip \in slipped
  BY DEF Inv, ApartInv, Within
<1>4. \A v \in Clips : saved[v] # NoSpot =>
        v \in slipped \/ saved[v] \in contested
          \/ [spot |-> saved[v], clip |-> v, content |-> "whole"] \in stored
  BY DEF Inv, RecordInv, Kept
<1> QED BY <1>1, <1>2, <1>3, <1>4 DEF DownloadsApart

\* What the property excuses are videos, and names.
HistoryInv == slipped \subseteq Clips /\ contested \subseteq Spots

LEMMA HistoryTypes == Inv /\ HistoryInv => SingleTypeOK
BY DEF Inv, TypeInv, HistoryInv, SingleTypeOK, AskerType, FileType

LEMMA HistoryStays == Inv /\ HistoryInv /\ [SingleNext]_singleVars => HistoryInv'
<1> SUFFICES ASSUME Inv, HistoryInv, [SingleNext]_singleVars PROVE HistoryInv'
  OBVIOUS
<1>1. CASE UNCHANGED <<slipped, contested>>
  BY <1>1 DEF HistoryInv
<1>2. ASSUME NEW r \in Askers, AskerPasses(r)
      PROVE  HistoryInv'
  <2>1. asker[r].at = "looked" /\ contested' = contested
        /\ (slipped' = slipped \/ slipped' = slipped \cup {asker[r].clip})
    BY <1>2 DEF AskerPasses
  <2>2. asker[r].clip \in Clips
    BY <2>1 DEF Inv, TypeInv
  <2> QED BY <2>1, <2>2 DEF HistoryInv
<1>3. ASSUME NEW c \in Cancellers, CancelDeletes(c)
      PROVE  HistoryInv'
  BY <1>3 DEF CancelDeletes, Inv, TypeInv, HistoryInv
<1>4. ASSUME NEW r \in Askers, DownloadChecks(r)
      PROVE  HistoryInv'
  <2>1. asker[r].spot \in Spots /\ IsFiniteSet(stored)
    BY DEF Inv, TypeInv, AskerType
  <2>2. \A p \in FreeSpots(asker[r].spot) : p \in Spots
    BY <2>1, FreeSpotsFree
  <2>3. slipped' = slipped /\ (contested' = contested \/
          \E p \in FreeSpots(asker[r].spot) : contested' = contested \cup {p})
    BY <1>4 DEF DownloadChecks
  <2> QED BY <2>2, <2>3 DEF HistoryInv
<1>5. ASSUME NEW r \in Askers, \/ \E v \in Clips, force \in BOOLEAN : AskerLooks(r, v, force)
                             \/ AskerEnters(r) \/ TransferBegins(r) \/ TransferDone(r)
                             \/ TransferFails(r) \/ DownloadMoves(r) \/ DownloadRecords(r)
                             \/ DownloadEnds(r)
      PROVE  HistoryInv'
  BY <1>1, <1>5 DEF AskerLooks, AskerEnters, TransferBegins, TransferDone, TransferFails, DownloadMoves,
       DownloadRecords, DownloadEnds
<1>6. ASSUME NEW c \in Cancellers, NEW v \in Clips, CancelFires(c, v)
      PROVE  HistoryInv'
  BY <1>1, <1>6 DEF CancelFires
<1>7. CASE UNCHANGED singleVars
  BY <1>1, <1>7 DEF singleVars
<1> QED BY <1>2, <1>3, <1>4, <1>5, <1>6, <1>7 DEF SingleNext

\* In every behaviour an entry of activeDownloads is a running download's, no temporary
\* file outlives its download, and but for the cancellations and the races the property
\* names, downloads of a video run one at a time and what is recorded is whole on disk.
THEOREM DownloadsStayApart == SingleSpec => [](SingleTypeOK /\ DownloadsApart)
<1>1. Inv /\ HistoryInv => SingleTypeOK /\ DownloadsApart
  BY InvApart, HistoryTypes
<1>2. SingleInit => Inv /\ HistoryInv
  BY InitInv DEF SingleInit, HistoryInv
<1>3. Inv /\ HistoryInv /\ [SingleNext]_singleVars => Inv' /\ HistoryInv'
  BY StepInv, HistoryStays
<1> QED BY <1>1, <1>2, <1>3, PTL DEF SingleSpec

-----------------------------------------------------------------------------
(* Uploads.                                                                *)

\* One merge at a time, which is upload_merge_concurrency by default; with more,
\* two merges may be given one name and write into one file.
OneMerge == MergeCap = 1

ChunkType == [at : {"unsent", "found", "writing", "answered"}, up : Uploads \cup {NoOne}, part : 0..PartCount]
WriterType == [at : {"unsent", "named", "created", "copying", "cleaning", "stored", "refused"},
               up : Uploads \cup {NoOne}, name : FileNames, copied : 0..PartCount, whole : BOOLEAN]
Created(w) == writer[w].at \notin {"unsent", "named"}
Engaged == {"named", "created", "copying", "cleaning"}

\* What a chunk or a merge works on is known.
UploadTypeInv ==
  /\ UploadTypeOK /\ damaged \subseteq Uploads
  /\ \A c \in Chunkers : chunker[c].at \in {"found", "writing"} =>
       chunker[c].up \in Uploads /\ chunker[c].part \in PartIds
  /\ \A m \in Mergers : writer[m].at \in Engaged => writer[m].up \in Uploads
  /\ \A w \in Writers : writer[w].at \notin {"cleaning", "stored"} => writer[w].copied < PartCount
  /\ \A s \in Savers : writer[s].at \notin {"copying", "cleaning"}

\* A part that is not whole is being written by the request that created it, or
\* the upload is known to be damaged.
CutInv ==
  \A u \in Uploads, i \in PartIds : part[u][i] = "cut" =>
    \/ u \in damaged
    \/ \E c \in Chunkers : /\ latest[u][i] = c /\ chunker[c].at = "writing"
                           /\ chunker[c].up = u /\ chunker[c].part = i

\* A merge that has copied a part as it was being written knows it.
WholeInv ==
  \A m \in Mergers : /\ writer[m].whole \/ writer[m].up \in damaged
                     /\ writer[m].at = "unsent" => writer[m].whole

\* A file is its creator's, under the name he was given; one merge at a time runs;
\* the name it was given is no finished merge's; and who has created a file still
\* has it, unless a save of the name came.
Overtaken(m) == \E s \in Savers : writer[s].name = writer[m].name /\ writer[s].at # "unsent"
FileInv ==
  /\ \A n \in FileNames : files[n] # NoOne => Created(files[n]) /\ writer[files[n]].name = n
  /\ \A w \in Writers : Created(w) => files[writer[w].name] # NoOne
  /\ \A m, k \in Merging : m = k
  /\ \A m, k \in Mergers : writer[m].at = "named" /\ Created(k) => writer[m].name # writer[k].name
  /\ \A m \in Mergers : writer[m].at \in {"created", "copying", "cleaning", "stored"} =>
       files[writer[m].name] = m \/ Overtaken(m)

UploadInv == UploadTypeInv /\ CutInv /\ WholeInv /\ FileInv

LEMMA UploadInitInv == UploadInit => UploadInv
<1> SUFFICES ASSUME UploadInit PROVE UploadInv
  OBVIOUS
<1>1. 0 \in FileNames /\ PartCount \in Nat \ {0} /\ 0 \in 0..PartCount
  <2>1. Cardinality(Mergers) \in Nat /\ Cardinality(Savers) \in Nat
    BY UploadsAssumption, FS_CardinalityType
  <2> QED BY <2>1, UploadsAssumption DEF FileNames
<1>2. \A w \in Writers : writer[w].at = "unsent" /\ writer[w].whole /\ writer[w].copied < PartCount
  BY <1>1 DEF UploadInit
<1>3. UploadTypeInv
  <2>1. part \in [Uploads -> [PartIds -> {"none", "cut", "whole"}]]
        /\ latest \in [Uploads -> [PartIds -> Chunkers \cup {NoOne}]]
    BY DEF UploadInit
  <2>2. chunker \in [Chunkers -> ChunkType] /\ \A c \in Chunkers : chunker[c].at = "unsent"
    BY <1>1 DEF UploadInit, NoChunk, ChunkType
  <2>3. writer \in [Writers -> WriterType]
    BY <1>1 DEF UploadInit, WriterType
  <2>4. files \in [FileNames -> Writers \cup {NoOne}]
    BY DEF UploadInit
  <2> QED BY <1>2, <2>1, <2>2, <2>3, <2>4
          DEF UploadInit, UploadTypeInv, UploadTypeOK, ChunkType, WriterType, Engaged, Writers
<1>4. CutInv
  BY DEF UploadInit, CutInv
<1>5. WholeInv
  BY <1>2 DEF WholeInv, Writers
<1>6. FileInv
  <2>1. \A n \in FileNames : files[n] = NoOne
    BY DEF UploadInit
  <2> QED BY <1>2, <2>1 DEF FileInv, Created, Merging, Writers
<1> QED BY <1>3, <1>4, <1>5, <1>6 DEF UploadInv

\* A request on a part leaves the merges alone.
LEMMA ChunkKeepsFiles ==
  ASSUME UploadInv, UNCHANGED <<writer, files>>, damaged \subseteq damaged'
  PROVE  WholeInv' /\ FileInv'
<1>1. WholeInv'
  BY DEF UploadInv, WholeInv
<1>2. FileInv'
  BY DEF UploadInv, FileInv, Created, Merging, Overtaken
<1> QED BY <1>1, <1>2

LEMMA ChunkerMoves ==
  ASSUME UploadTypeInv, NEW c \in Chunkers, NEW x \in ChunkType,
         x.at \in {"found", "writing"} => x.up \in Uploads /\ x.part \in PartIds,
         chunker' = [chunker EXCEPT ![c] = x],
         part' \in [Uploads -> [PartIds -> {"none", "cut", "whole"}]],
         latest' \in [Uploads -> [PartIds -> Chunkers \cup {NoOne}]],
         damaged' \subseteq Uploads,
         UNCHANGED <<begun, directories, writer, files, recorded>>
  PROVE  /\ UploadTypeInv' /\ chunker'[c] = x
         /\ \A d \in Chunkers : d # c => chunker'[d] = chunker[d]
<1>1. chunker \in [Chunkers -> ChunkType]
  BY DEF UploadTypeInv, UploadTypeOK, ChunkType
<1>2. chunker' \in [Chunkers -> ChunkType] /\ chunker'[c] = x
      /\ \A d \in Chunkers : d # c => chunker'[d] = chunker[d]
  BY <1>1
<1>3. UploadTypeOK'
  BY <1>2 DEF UploadTypeInv, UploadTypeOK, ChunkType
<1>4. \A d \in Chunkers : chunker'[d].at \in {"found", "writing"} =>
         chunker'[d].up \in Uploads /\ chunker'[d].part \in PartIds
  BY <1>2 DEF UploadTypeInv
<1> QED BY <1>2, <1>3, <1>4 DEF UploadTypeInv

\* An answered chunk.
Answered == [at |-> "answered", up |-> NoOne, part |-> 0]
LEMMA AnsweredType ==
  /\ Answered \in ChunkType
  /\ \A c : ChunkEnds(c) <=> chunker' = [chunker EXCEPT ![c] = Answered]
<1>1. PartCount \in Nat
  BY UploadsAssumption
<1>2. [NoChunk EXCEPT !.at = "answered"] = Answered
  BY DEF NoChunk, Answered
<1> QED BY <1>1, <1>2 DEF Answered, ChunkType, ChunkEnds

\* upload_chunk.
LEMMA ChunkKeepsInv ==
  ASSUME UploadInv, NEW c \in Chunkers,
         \/ \E u \in Uploads, i \in PartIds : ChunkLooks(c, u, i)
         \/ ChunkCreates(c) \/ ChunkSaved(c) \/ ChunkMismatches(c) \/ ChunkBreaks(c)
  PROVE  UploadInv'
<1> DEFINE u == chunker[c].up
           i == chunker[c].part
<1>1. /\ UploadTypeInv /\ damaged \subseteq Uploads
      /\ part \in [Uploads -> [PartIds -> {"none", "cut", "whole"}]]
      /\ latest \in [Uploads -> [PartIds -> Chunkers \cup {NoOne}]]
  BY DEF UploadInv, UploadTypeInv, UploadTypeOK
<1>2. UNCHANGED <<begun, directories, writer, files, recorded>> /\ damaged \subseteq damaged'
  BY DEF ChunkLooks, ChunkCreates, ChunkSaved, ChunkMismatches, ChunkBreaks
<1>3. WholeInv' /\ FileInv'
  BY <1>2, ChunkKeepsFiles
<1>4. chunker[c].at \in {"found", "writing"} => u \in Uploads /\ i \in PartIds
  BY <1>1 DEF UploadTypeInv
<1>5. PartIds \subseteq 0..PartCount
  BY UploadsAssumption DEF PartIds
\* A look, or a request that ends with the part as it was.
<1>6. ASSUME NEW x \in ChunkType, x.at \in {"found", "answered"},
             x.at = "found" => x.up \in Uploads /\ x.part \in PartIds,
             chunker' = [chunker EXCEPT ![c] = x], UNCHANGED <<part, latest, damaged>>,
             chunker[c].at # "writing" \/ (chunker[c].at = "writing" /\ u \in damaged)
      PROVE  UploadInv'
  <2>1. /\ UploadTypeInv' /\ \A d \in Chunkers : d # c => chunker'[d] = chunker[d]
    BY <1>1, <1>2, <1>6, ChunkerMoves
  <2>2. CutInv'
    BY <1>6, <2>1 DEF UploadInv, CutInv
  <2> QED BY <1>3, <2>1, <2>2 DEF UploadInv
<1>7. ASSUME NEW v \in Uploads, NEW j \in PartIds, ChunkLooks(c, v, j)
      PROVE  UploadInv'
  <2>1. [at |-> "found", up |-> v, part |-> j] \in ChunkType
    BY <1>5 DEF ChunkType
  <2>2. chunker[c].at # "writing" /\ UNCHANGED <<part, latest, damaged>>
    BY <1>7 DEF ChunkLooks
  <2>3. \/ chunker' = [chunker EXCEPT ![c] = [at |-> "found", up |-> v, part |-> j]]
        \/ chunker' = [chunker EXCEPT ![c] = Answered]
    BY <1>7, AnsweredType DEF ChunkLooks
  <2>4. CASE chunker' = [chunker EXCEPT ![c] = [at |-> "found", up |-> v, part |-> j]]
    BY <1>6, <2>1, <2>2, <2>4
  <2>5. CASE chunker' = [chunker EXCEPT ![c] = Answered]
    <3>1. Answered.at = "answered"
      BY DEF Answered
    <3> QED BY <1>6, <2>2, <2>5, <3>1, AnsweredType
  <2> QED BY <2>3, <2>4, <2>5
<1>8. CASE ChunkCreates(c)
  <2>1. chunker[c].at = "found" /\ u \in Uploads /\ i \in PartIds /\ UNCHANGED damaged
    BY <1>4, <1>8 DEF ChunkCreates
  <2>2. CASE ChunkEnds(c) /\ UNCHANGED <<part, latest>>
    <3>1. Answered.at = "answered" /\ chunker' = [chunker EXCEPT ![c] = Answered]
      BY <2>2, AnsweredType DEF Answered
    <3> QED BY <1>6, <2>1, <2>2, <3>1, AnsweredType
  <2>3. CASE /\ chunker' = [chunker EXCEPT ![c].at = "writing"]
             /\ part' = [part EXCEPT ![u][i] = "cut"]
             /\ latest' = [latest EXCEPT ![u][i] = c]
    <3> DEFINE x == [at |-> "writing", up |-> u, part |-> i]
    <3>1. chunker[c] \in ChunkType
      BY <1>1 DEF UploadTypeInv, UploadTypeOK, ChunkType
    <3>2. x \in ChunkType /\ chunker' = [chunker EXCEPT ![c] = x]
      <4>1. [chunker[c] EXCEPT !.at = "writing"] = x
        BY <3>1 DEF ChunkType
      <4>2. x \in ChunkType
        BY <1>5, <2>1 DEF ChunkType
      <4>3. chunker' = [chunker EXCEPT ![c] = [chunker[c] EXCEPT !.at = "writing"]]
        BY <2>3
      <4> QED BY <4>1, <4>2, <4>3
    <3>3. part' \in [Uploads -> [PartIds -> {"none", "cut", "whole"}]]
          /\ latest' \in [Uploads -> [PartIds -> Chunkers \cup {NoOne}]]
      BY <1>1, <2>1, <2>3
    <3>4. /\ UploadTypeInv' /\ chunker'[c] = x
          /\ \A d \in Chunkers : d # c => chunker'[d] = chunker[d]
      BY <1>1, <1>2, <2>1, <3>2, <3>3, ChunkerMoves
    <3>5. latest'[u][i] = c /\ \A v \in Uploads, j \in PartIds : v # u \/ j # i =>
             part'[v][j] = part[v][j] /\ latest'[v][j] = latest[v][j]
      BY <1>1, <2>1, <2>3
    <3>6. ASSUME NEW v \in Uploads, NEW j \in PartIds, part'[v][j] = "cut"
          PROVE  \/ v \in damaged'
                 \/ \E d \in Chunkers : /\ latest'[v][j] = d /\ chunker'[d].at = "writing"
                                        /\ chunker'[d].up = v /\ chunker'[d].part = j
      <4>1. CASE v = u /\ j = i
        BY <3>4, <3>5, <4>1
      <4>2. CASE v # u \/ j # i
        <5>1. \/ v \in damaged
              \/ \E d \in Chunkers : /\ latest[v][j] = d /\ chunker[d].at = "writing"
                                     /\ chunker[d].up = v /\ chunker[d].part = j
          BY <3>5, <3>6, <4>2 DEF UploadInv, CutInv
        <5> QED BY <2>1, <3>4, <3>5, <4>2, <5>1
      <4> QED BY <4>1, <4>2
    <3>7. CutInv'
      BY <3>6 DEF CutInv
    <3> QED BY <1>3, <3>4, <3>7 DEF UploadInv
  <2> QED BY <1>8, <2>2, <2>3 DEF ChunkCreates
\* A request that ends with its part settled.
<1>9. ASSUME chunker[c].at = "writing", ChunkEnds(c),
             \/ UNCHANGED <<part, latest>> /\ (latest[u][i] = c => u \in damaged')
             \/ part' = [part EXCEPT ![u][i] = "whole"] /\ UNCHANGED latest
             \/ part' = [part EXCEPT ![u][i] = "none"] /\ latest' = [latest EXCEPT ![u][i] = NoOne],
             damaged' \subseteq Uploads
      PROVE  UploadInv'
  <2>1. u \in Uploads /\ i \in PartIds /\ chunker' = [chunker EXCEPT ![c] = Answered]
    BY <1>4, <1>9, AnsweredType
  <2>2. part' \in [Uploads -> [PartIds -> {"none", "cut", "whole"}]]
        /\ latest' \in [Uploads -> [PartIds -> Chunkers \cup {NoOne}]]
    <3> HIDE DEF u, i
    <3>1. CASE UNCHANGED <<part, latest>>
      BY <1>1, <3>1
    <3>2. CASE part' = [part EXCEPT ![u][i] = "whole"] /\ UNCHANGED latest
      BY <1>1, <2>1, <3>2
    <3>3. CASE part' = [part EXCEPT ![u][i] = "none"] /\ latest' = [latest EXCEPT ![u][i] = NoOne]
      BY <1>1, <2>1, <3>3
    <3> QED BY <1>9, <3>1, <3>2, <3>3
  <2>3. /\ UploadTypeInv'
        /\ \A d \in Chunkers : d # c => chunker'[d] = chunker[d]
    <3>1. Answered \in ChunkType /\ Answered.at = "answered"
      BY AnsweredType DEF Answered
    <3> QED BY <1>1, <1>2, <1>9, <2>1, <2>2, <3>1, ChunkerMoves
  <2>4. ASSUME NEW v \in Uploads, NEW j \in PartIds, part'[v][j] = "cut"
        PROVE  \/ v \in damaged'
               \/ \E d \in Chunkers : /\ latest'[v][j] = d /\ chunker'[d].at = "writing"
                                      /\ chunker'[d].up = v /\ chunker'[d].part = j
    <3>1. part[v][j] = "cut" /\ latest'[v][j] = latest[v][j]
          /\ (v = u /\ j = i => UNCHANGED <<part, latest>> /\ (latest[u][i] = c => u \in damaged'))
      BY <1>1, <1>9, <2>1, <2>4
    <3>2. \/ v \in damaged
          \/ \E d \in Chunkers : /\ latest[v][j] = d /\ chunker[d].at = "writing"
                                 /\ chunker[d].up = v /\ chunker[d].part = j
      BY <3>1 DEF UploadInv, CutInv
    <3>3. ASSUME NEW d \in Chunkers, latest[v][j] = d, chunker[d].at = "writing",
                 chunker[d].up = v, chunker[d].part = j
          PROVE  v \in damaged' \/ d # c
      BY <3>1, <3>3
    <3> QED BY <1>2, <2>3, <3>1, <3>2, <3>3
  <2>5. CutInv'
    BY <2>4 DEF CutInv
  <2> QED BY <1>3, <2>3, <2>5 DEF UploadInv
<1>10. CASE ChunkSaved(c)
  <2>1. /\ chunker[c].at = "writing" /\ ChunkEnds(c) /\ UNCHANGED <<latest, damaged>>
        /\ \/ part' = [part EXCEPT ![u][i] = "whole"]
           \/ part' = part /\ latest[u][i] # c
    BY <1>10 DEF ChunkSaved, Owns
  <2> QED BY <1>1, <1>9, <2>1
<1>11. CASE ChunkMismatches(c)
  <2>1. /\ chunker[c].at = "writing" /\ ChunkEnds(c)
        /\ \/ /\ part' = [part EXCEPT ![u][i] = "none"] /\ latest' = [latest EXCEPT ![u][i] = NoOne]
              /\ damaged' = damaged
           \/ damaged' = damaged \cup {u} /\ UNCHANGED <<part, latest>>
    BY <1>11 DEF ChunkMismatches, ChunkDropped
  <2> QED BY <1>1, <1>4, <1>9, <2>1
<1>12. CASE ChunkBreaks(c)
  <2>1. chunker[c].at = "writing" /\ ChunkEnds(c) /\ damaged' = damaged \cup {u} /\ UNCHANGED <<part, latest>>
    BY <1>12 DEF ChunkBreaks
  <2> QED BY <1>1, <1>4, <1>9, <2>1
<1> QED BY <1>7, <1>8, <1>10, <1>11, <1>12

LEMMA InitUploadKeepsInv ==
  ASSUME UploadInv, NEW u \in Uploads, InitUpload(u)
  PROVE  UploadInv'
<1>1. begun' = begun \cup {u} /\ directories' = directories \cup {u}
      /\ UNCHANGED <<part, latest, chunker, writer, files, recorded, damaged>>
  BY DEF InitUpload
<1>2. UploadTypeInv'
  BY <1>1 DEF UploadInv, UploadTypeInv, UploadTypeOK
<1>3. CutInv'
  BY <1>1 DEF UploadInv, CutInv
<1> QED BY <1>1, <1>2, <1>3, ChunkKeepsFiles DEF UploadInv

-----------------------------------------------------------------------------
LEMMA WriterMoves ==
  ASSUME UploadTypeInv, NEW w \in Writers, NEW x \in WriterType,
         w \in Mergers /\ x.at \in Engaged => x.up \in Uploads,
         x.at \notin {"cleaning", "stored"} => x.copied < PartCount,
         w \in Savers => x.at \notin {"copying", "cleaning"},
         writer' = [writer EXCEPT ![w] = x],
         begun' = begun, directories' \subseteq begun,
         part' \in [Uploads -> [PartIds -> {"none", "cut", "whole"}]],
         latest' \in [Uploads -> [PartIds -> Chunkers \cup {NoOne}]],
         files' \in [FileNames -> Writers \cup {NoOne}],
         recorded' \subseteq FileNames, damaged' \subseteq Uploads, chunker' = chunker
  PROVE  /\ UploadTypeInv' /\ writer'[w] = x
         /\ \A v \in Writers : v # w => writer'[v] = writer[v]
<1>1. writer \in [Writers -> WriterType]
  BY DEF UploadTypeInv, UploadTypeOK, WriterType
<1>2. writer' \in [Writers -> WriterType] /\ writer'[w] = x
      /\ \A v \in Writers : v # w => writer'[v] = writer[v]
  BY <1>1
<1>3. UploadTypeOK'
  BY <1>2 DEF UploadTypeInv, UploadTypeOK, WriterType
<1>4. \A c \in Chunkers : chunker'[c].at \in {"found", "writing"} =>
        chunker'[c].up \in Uploads /\ chunker'[c].part \in PartIds
  BY DEF UploadTypeInv
<1>5. /\ \A m \in Mergers : writer'[m].at \in Engaged => writer'[m].up \in Uploads
      /\ \A v \in Writers : writer'[v].at \notin {"cleaning", "stored"} => writer'[v].copied < PartCount
      /\ \A v \in Savers : writer'[v].at \notin {"copying", "cleaning"}
  BY <1>2 DEF UploadTypeInv, Writers
<1> QED BY <1>2, <1>3, <1>4, <1>5 DEF UploadTypeInv

\* A set of natural numbers that is not empty has a least element.
LEMMA Least ==
  ASSUME NEW S, S \subseteq Nat, S # {}
  PROVE  \E n \in S : \A m \in S : n <= m
<1> DEFINE R == {ss \in Nat \X Nat : ss[1] < ss[2]}
<1>1. IsWellFoundedOn(R, Nat)
  BY NatLessThanWellFounded DEF OpToRel
<1>2. ASSUME NEW m \in Nat, NEW n \in Nat, m < n
      PROVE  <<m, n>> \in R
  BY <1>2
<1> HIDE DEF R
<1>3. PICK n \in S : \A m \in S : ~(<<m, n>> \in R)
  BY <1>1, WFMin
<1>4. ASSUME NEW m \in S
      PROVE  n <= m
  <2>1. m \in Nat /\ n \in Nat /\ ~(<<m, n>> \in R)
    BY <1>3
  <2>2. ~(m < n)
    BY <1>2, <2>1, Zenon
  <2> QED BY <2>1, <2>2
<1> QED BY <1>4

\* There is always a free name: every file that is not free has a writer of its own.
LEMMA FreeNameIsFree ==
  ASSUME UploadInv
  PROVE  FreeName \in FileNames /\ files[FreeName] = NoOne
<1> DEFINE Free == {n \in FileNames : files[n] = NoOne}
<1>1. /\ IsFiniteSet(Mergers) /\ IsFiniteSet(Savers)
      /\ Cardinality(Mergers) \in Nat /\ Cardinality(Savers) \in Nat
  BY UploadsAssumption, FS_CardinalityType
<1>2. FileNames \subseteq Nat
  BY <1>1 DEF FileNames
<1>3. Free # {}
  <2> SUFFICES ASSUME Free = {} PROVE FALSE
    OBVIOUS
  <2>1. /\ IsFiniteSet(Writers) /\ Cardinality(Writers) \in Nat
        /\ Cardinality(Writers) <= Cardinality(Mergers) + Cardinality(Savers)
    <3>1. IsFiniteSet(Writers)
          /\ Cardinality(Writers) =
               Cardinality(Mergers) + Cardinality(Savers) - Cardinality(Mergers \cap Savers)
      BY <1>1, FS_Union DEF Writers
    <3>2. IsFiniteSet(Mergers \cap Savers)
      BY <1>1, FS_Intersection
    <3>3. Cardinality(Mergers \cap Savers) \in Nat /\ Cardinality(Writers) \in Nat
      BY <3>1, <3>2, FS_CardinalityType
    <3> QED BY <1>1, <3>1, <3>3
  <2>2. /\ IsFiniteSet(FileNames)
        /\ Cardinality(FileNames) = Cardinality(Mergers) + Cardinality(Savers) + 1
    <3> DEFINE top == Cardinality(Mergers) + Cardinality(Savers)
    <3>1. top \in Nat /\ FileNames = 0..top
      BY <1>1 DEF FileNames
    <3> HIDE DEF top
    <3>2. IsFiniteSet(0..top) /\ Cardinality(0..top) = top + 1
      BY <3>1, FS_Interval
    <3> QED BY <3>1, <3>2 DEF top
  <2>3. files \in [FileNames -> Writers] /\ \A n \in FileNames : files[n] # NoOne
    BY DEF UploadInv, UploadTypeInv, UploadTypeOK
  <2>4. Cardinality(Writers) < Cardinality(FileNames)
    BY <1>1, <2>1, <2>2
  <2>5. PICK n, k \in FileNames : n # k /\ files[n] = files[k]
    <3> HIDE DEF Free
    <3> QED BY <2>1, <2>2, <2>3, <2>4, FS_PigeonHole
  <2>6. writer[files[n]].name = n /\ writer[files[k]].name = k
    BY <2>3 DEF UploadInv, FileInv
  <2> QED BY <2>5, <2>6
<1>4. Free \subseteq Nat
  BY <1>2
<1> HIDE DEF Free
<1>5. \E n \in Free : \A k \in Free : n <= k
  BY <1>3, <1>4, Least
<1>6. FreeName = CHOOSE n \in Free : \A k \in Free : n <= k
  BY DEF FreeName, Min, Free
<1>7. FreeName \in Free
  BY <1>5, <1>6
<1> QED BY <1>7 DEF Free

\* A writer that is given a name, which is nobody's.
LEMMA NamedKeepsFiles ==
  ASSUME UploadInv, NEW w \in Writers, writer[w].at = "unsent",
         writer'[w].at = "named", writer'[w].name = FreeName,
         \A v \in Writers : v # w => writer'[v] = writer[v],
         files' = files, w \in Mergers => Merging = {}
  PROVE  FileInv'
<1>1. FreeName \in FileNames /\ files[FreeName] = NoOne
  BY FreeNameIsFree
<1>2. FileInv /\ files \in [FileNames -> Writers \cup {NoOne}] /\ NoOne \notin Writers
  BY UploadsAssumption DEF UploadInv, UploadTypeInv, UploadTypeOK, Writers
<1>3. ~Created(w) /\ ~Created(w)' /\ \A v \in Writers : Created(v)' = Created(v)
  BY DEF Created
<1>4. \A n \in FileNames : files'[n] # NoOne =>
        writer'[files'[n]].at \notin {"unsent", "named"} /\ writer'[files'[n]].name = n
  <2>1. ASSUME NEW n \in FileNames, files[n] # NoOne
        PROVE  writer'[files[n]].at \notin {"unsent", "named"} /\ writer'[files[n]].name = n
    <3>1. files[n] \in Writers /\ Created(files[n]) /\ writer[files[n]].name = n
      BY <1>2, <2>1 DEF FileInv
    <3>2. files[n] # w
      BY <1>3, <3>1
    <3> QED BY <3>1, <3>2 DEF Created
  <2> QED BY <2>1 DEF Created
<1>5. \A v \in Writers : Created(v)' => files'[writer'[v].name] # NoOne
  BY <1>2, <1>3 DEF FileInv
<1>6. \A m, k \in Merging' : m = k
  BY <1>2 DEF FileInv, Merging, Writers
<1>7. \A m, k \in Mergers : writer'[m].at = "named" /\ Created(k)' => writer'[m].name # writer'[k].name
  <2>1. ASSUME NEW m \in Mergers, NEW k \in Mergers, writer'[m].at = "named", Created(k)'
        PROVE  writer'[m].name # writer'[k].name
    <3>1. k \in Writers /\ k # w /\ Created(k) /\ writer'[k] = writer[k] /\ files[writer[k].name] # NoOne
      BY <1>2, <1>3, <2>1 DEF FileInv, Writers
    <3>2. CASE m = w
      BY <1>1, <3>1, <3>2
    <3>3. CASE m # w
      BY <1>2, <2>1, <3>1, <3>3 DEF FileInv, Writers
    <3> QED BY <3>2, <3>3
  <2> QED BY <2>1
<1>8. \A m \in Mergers : writer'[m].at \in {"created", "copying", "cleaning", "stored"} =>
         files'[writer'[m].name] = m \/ Overtaken(m)'
  <2>1. ASSUME NEW m \in Mergers, writer'[m].at \in {"created", "copying", "cleaning", "stored"}
        PROVE  files[writer'[m].name] = m \/ Overtaken(m)'
    <3>1. m # w /\ writer'[m] = writer[m]
      BY <2>1 DEF Writers
    <3>2. files[writer[m].name] = m \/ Overtaken(m)
      BY <1>2, <2>1, <3>1 DEF FileInv
    <3>3. Overtaken(m) => Overtaken(m)'
      BY <3>1 DEF Overtaken, Writers
    <3> QED BY <3>1, <3>2, <3>3
  <2> QED BY <2>1
<1> QED BY <1>4, <1>5, <1>6, <1>7, <1>8 DEF FileInv, Created

\* A writer that has created its file goes on, or ends.
LEMMA CreatedKeepsFiles ==
  ASSUME UploadInv, NEW w \in Writers,
         writer[w].at \in {"created", "copying", "cleaning"}, writer'[w].at \notin {"unsent", "named"},
         writer'[w].name = writer[w].name,
         \A v \in Writers : v # w => writer'[v] = writer[v],
         files' = files
  PROVE  FileInv'
<1>1. FileInv /\ files \in [FileNames -> Writers \cup {NoOne}]
  BY DEF UploadInv, UploadTypeInv, UploadTypeOK
<1>2. /\ \A v \in Writers : Created(v)' = Created(v) /\ writer'[v].name = writer[v].name
      /\ \A v \in Writers : writer'[v].at \in {"unsent", "named"} => writer'[v] = writer[v]
      /\ \A v \in Writers : writer'[v].at \in {"created", "copying", "cleaning", "stored"} =>
            writer[v].at \in {"created", "copying", "cleaning", "stored"}
      /\ \A v \in Writers : writer[v].at # "unsent" => writer'[v].at # "unsent"
  BY DEF Created
<1>3. \A n \in FileNames : files'[n] # NoOne =>
        writer'[files'[n]].at \notin {"unsent", "named"} /\ writer'[files'[n]].name = n
  <2>1. ASSUME NEW n \in FileNames, files[n] # NoOne
        PROVE  writer'[files[n]].at \notin {"unsent", "named"} /\ writer'[files[n]].name = n
    <3>1. files[n] \in Writers /\ Created(files[n]) /\ writer[files[n]].name = n
      BY <1>1, <2>1 DEF FileInv
    <3> QED BY <1>2, <3>1 DEF Created
  <2> QED BY <2>1 DEF Created
<1>4. \A v \in Writers : Created(v)' => files'[writer'[v].name] # NoOne
  BY <1>1, <1>2 DEF FileInv
<1>5. \A m, k \in Merging' : m = k
  <2>1. Merging' \subseteq Merging
    BY DEF Merging, Writers
  <2> QED BY <1>1, <2>1 DEF FileInv
<1>6. \A m, k \in Mergers : writer'[m].at = "named" /\ Created(k)' => writer'[m].name # writer'[k].name
  BY <1>1, <1>2 DEF FileInv, Writers
<1>7. \A m \in Mergers : writer'[m].at \in {"created", "copying", "cleaning", "stored"} =>
         files'[writer'[m].name] = m \/ Overtaken(m)'
  <2>1. \A m \in Mergers : Overtaken(m) => Overtaken(m)'
    BY <1>2 DEF Overtaken, Writers
  <2> QED BY <1>1, <1>2, <2>1 DEF FileInv, Writers
<1> QED BY <1>3, <1>4, <1>5, <1>6, <1>7 DEF FileInv, Created

\* os.Create.
LEMMA CreateKeepsInv ==
  ASSUME UploadInv, NEW w \in Writers, WriterCreates(w)
  PROVE  UploadInv'
<1> DEFINE x == [writer[w] EXCEPT !.at = "created"]
<1>1. /\ writer[w].at = "named" /\ files' = [files EXCEPT ![writer[w].name] = w]
      /\ writer' = [writer EXCEPT ![w] = x]
      /\ UNCHANGED <<begun, directories, part, latest, chunker, recorded, damaged>>
  BY DEF WriterCreates
<1>2. /\ writer[w] \in WriterType /\ writer[w].name \in FileNames /\ NoOne \notin Writers
      /\ files \in [FileNames -> Writers \cup {NoOne}] /\ FileInv
  BY UploadsAssumption DEF UploadInv, UploadTypeInv, UploadTypeOK, WriterType, Writers
<1>3. /\ x \in WriterType /\ x.at = "created" /\ x.name = writer[w].name /\ x.up = writer[w].up
      /\ x.copied = writer[w].copied /\ x.whole = writer[w].whole
  BY <1>2 DEF WriterType
<1> HIDE DEF x
<1>4. files' \in [FileNames -> Writers \cup {NoOne}] /\ files'[writer[w].name] = w
      /\ \A n \in FileNames : n # writer[w].name => files'[n] = files[n]
  BY <1>1, <1>2
<1>5. /\ UploadTypeInv' /\ writer'[w] = x
      /\ \A v \in Writers : v # w => writer'[v] = writer[v]
  <2>1. w \in Mergers => x.up \in Uploads
    BY <1>1, <1>3 DEF UploadInv, UploadTypeInv, Engaged
  <2>2. x.copied < PartCount
    BY <1>1, <1>3 DEF UploadInv, UploadTypeInv
  <2> QED BY <1>1, <1>3, <1>4, <2>1, <2>2, WriterMoves DEF UploadInv, UploadTypeInv, UploadTypeOK
<1>6. CutInv' /\ WholeInv'
  BY <1>1, <1>3, <1>5 DEF UploadInv, CutInv, WholeInv, Writers
<1>7. \A v \in Writers : /\ writer'[v].name = writer[v].name
                         /\ Created(v)' <=> Created(v) \/ v = w
                         /\ writer'[v].at = "unsent" <=> writer[v].at = "unsent"
  BY <1>1, <1>3, <1>5 DEF Created
<1>8. ~Created(w)
  BY <1>1 DEF Created
<1>9. \A n \in FileNames : files'[n] # NoOne =>
        writer'[files'[n]].at \notin {"unsent", "named"} /\ writer'[files'[n]].name = n
  <2>1. ASSUME NEW n \in FileNames, files'[n] # NoOne
        PROVE  files'[n] \in Writers /\ (Created(files'[n]) \/ files'[n] = w) /\ writer[files'[n]].name = n
    BY <1>2, <1>4, <2>1 DEF FileInv
  <2>2. ASSUME NEW n \in FileNames, files'[n] # NoOne
        PROVE  writer'[files'[n]].at \notin {"unsent", "named"} /\ writer'[files'[n]].name = n
    BY <1>7, <2>1, <2>2 DEF Created
  <2> QED BY <2>2 DEF Created
<1>10. \A v \in Writers : Created(v)' => files'[writer'[v].name] # NoOne
  <2>1. \A v \in Writers : writer[v].name \in FileNames
    BY DEF UploadInv, UploadTypeInv, UploadTypeOK
  <2> QED BY <1>2, <1>4, <1>7, <2>1 DEF FileInv
<1>11. \A m, k \in Merging' : m = k
  <2>1. Merging' \subseteq Merging
    BY <1>1, <1>5 DEF Merging, Writers
  <2> QED BY <1>2, <2>1 DEF FileInv
<1>12. \A m, k \in Mergers : writer'[m].at = "named" /\ Created(k)' => writer'[m].name # writer'[k].name
  <2>1. ASSUME NEW m \in Mergers, NEW k \in Mergers, writer'[m].at = "named", Created(k)'
        PROVE  writer'[m].name # writer'[k].name
    <3>1. m # w /\ writer[m].at = "named" /\ m \in Writers /\ k \in Writers
      BY <1>3, <1>5, <2>1 DEF Writers
    <3>2. CASE k = w
      <4>1. m \in Merging /\ w \in Merging
        BY <1>1, <3>1, <3>2 DEF Merging
      <4> QED BY <1>2, <3>1, <4>1 DEF FileInv
    <3>3. CASE k # w
      BY <1>2, <1>7, <2>1, <3>1, <3>3 DEF FileInv
    <3> QED BY <3>2, <3>3
  <2> QED BY <2>1
<1>13. \A m \in Mergers : writer'[m].at \in {"created", "copying", "cleaning", "stored"} =>
          files'[writer'[m].name] = m \/ Overtaken(m)'
  <2>1. ASSUME NEW m \in Mergers, writer'[m].at \in {"created", "copying", "cleaning", "stored"}
        PROVE  files'[writer[m].name] = m \/ Overtaken(m)'
    <3>1. m \in Writers /\ writer[m].name \in FileNames
      BY DEF UploadInv, UploadTypeInv, UploadTypeOK, Writers
    <3>2. CASE m = w
      BY <1>4, <3>2
    <3>3. CASE m # w /\ writer[w].name # writer[m].name
      <4>1. writer'[m] = writer[m] /\ files'[writer[m].name] = files[writer[m].name]
        BY <1>4, <1>5, <3>1, <3>3
      <4>2. files[writer[m].name] = m \/ Overtaken(m)
        BY <1>2, <2>1, <4>1 DEF FileInv
      <4>3. Overtaken(m) => Overtaken(m)'
        BY <1>7, <3>1 DEF Overtaken, Writers
      <4> QED BY <4>1, <4>2, <4>3
    <3>4. CASE m # w /\ writer[w].name = writer[m].name
      <4>1. writer'[m] = writer[m] /\ Created(m)
        BY <1>5, <2>1, <3>1, <3>4 DEF Created
      <4>2. w \notin Mergers
        BY <1>1, <1>2, <3>4, <4>1 DEF FileInv
      <4>3. w \in Savers
        BY <4>2 DEF Writers
      <4>4. writer'[w].name = writer'[m].name /\ writer'[w].at # "unsent"
        BY <1>3, <1>5, <3>4, <4>1
      <4> QED BY <4>3, <4>4 DEF Overtaken
    <3> QED BY <3>2, <3>3, <3>4
  <2>2. \A m \in Mergers : writer'[m].name = writer[m].name
    BY <1>7 DEF Writers
  <2> QED BY <2>1, <2>2
<1>14. FileInv'
  BY <1>9, <1>10, <1>11, <1>12, <1>13 DEF FileInv, Created
<1> QED BY <1>5, <1>6, <1>14 DEF UploadInv

\* complete_upload and save_video are given a name.
LEMMA NameKeepsInv ==
  ASSUME UploadInv, OneMerge,
         \/ \E m \in Mergers, u \in Uploads : MergeNames(m, u)
         \/ \E s \in Writers : SaveNames(s)
  PROVE  UploadInv'
<1>1. FreeName \in FileNames
  BY FreeNameIsFree
<1>2. UploadTypeInv
  BY DEF UploadInv
<1>3. ASSUME NEW w \in Writers, writer[w].at = "unsent",
             NEW x \in WriterType, x.at = "named", x.name = FreeName,
             x.copied = writer[w].copied, x.whole = writer[w].whole, w \in Mergers => x.up \in Uploads,
             writer' = [writer EXCEPT ![w] = x], w \in Mergers => Merging = {},
             UNCHANGED <<begun, directories, part, latest, chunker, files, recorded, damaged>>
      PROVE  UploadInv'
  <2>1. x.copied < PartCount
    BY <1>2, <1>3 DEF UploadTypeInv
  <2>2. /\ UploadTypeInv' /\ writer'[w] = x
        /\ \A v \in Writers : v # w => writer'[v] = writer[v]
    BY <1>2, <1>3, <2>1, WriterMoves DEF UploadTypeInv, UploadTypeOK
  <2>3. CutInv'
    BY <1>3 DEF UploadInv, CutInv
  <2>4. WholeInv'
    BY <1>3, <2>2 DEF UploadInv, WholeInv, Writers
  <2>5. FileInv'
    BY <1>3, <2>2, NamedKeepsFiles
  <2> QED BY <2>2, <2>3, <2>4, <2>5 DEF UploadInv
<1>4. ASSUME NEW m \in Mergers, NEW u \in Uploads, MergeNames(m, u)
      PROVE  UploadInv'
  <2> DEFINE x == [writer[m] EXCEPT !.at = "named", !.up = u, !.name = FreeName]
  <2>1. /\ writer[m].at = "unsent" /\ MergeMayStart /\ writer' = [writer EXCEPT ![m] = x]
        /\ UNCHANGED <<begun, directories, part, latest, chunker, files, recorded, damaged>>
    BY <1>4 DEF MergeNames
  <2>2. m \in Writers /\ writer[m] \in WriterType
    BY <1>2 DEF UploadTypeInv, UploadTypeOK, WriterType, Writers
  <2>3. x \in WriterType /\ x.at = "named" /\ x.name = FreeName /\ x.up = u
        /\ x.copied = writer[m].copied /\ x.whole = writer[m].whole
    BY <1>1, <2>2 DEF WriterType
  <2>4. Merging = {}
    <3>1. IsFiniteSet(Merging)
      BY UploadsAssumption, FS_Subset DEF Merging
    <3>2. Cardinality(Merging) \in Nat /\ Cardinality(Merging) < 1
      BY <2>1, <3>1, FS_CardinalityType DEF MergeMayStart, OneMerge
    <3>3. Cardinality(Merging) = 0
      BY <3>2
    <3> QED BY <3>1, <3>3, FS_EmptySet
  <2> HIDE DEF x
  <2> QED BY <1>3, <2>1, <2>2, <2>3, <2>4
<1>5. ASSUME NEW s \in Writers, SaveNames(s)
      PROVE  UploadInv'
  <2> DEFINE x == [writer[s] EXCEPT !.at = "named", !.name = FreeName]
  <2>1. /\ s \in Savers /\ writer[s].at = "unsent" /\ writer' = [writer EXCEPT ![s] = x]
        /\ UNCHANGED <<begun, directories, part, latest, chunker, files, recorded, damaged>>
    BY <1>5 DEF SaveNames
  <2>2. s \notin Mergers /\ writer[s] \in WriterType
    BY <1>2, <2>1, UploadsAssumption DEF UploadTypeInv, UploadTypeOK, WriterType
  <2>3. x \in WriterType /\ x.at = "named" /\ x.name = FreeName
        /\ x.copied = writer[s].copied /\ x.whole = writer[s].whole
    BY <1>1, <2>2 DEF WriterType
  <2> HIDE DEF x
  <2> QED BY <1>3, <2>1, <2>2, <2>3
<1> QED BY <1>4, <1>5

\* What follows the creation.
LEMMA MergeKeepsInv ==
  ASSUME UploadInv, NEW w \in Writers,
         MergeChecks(w) \/ MergeCopies(w) \/ MergeCleans(w) \/ SaveEnds(w)
  PROVE  UploadInv'
<1> DEFINE Refused == [writer[w] EXCEPT !.at = "refused", !.up = NoOne, !.copied = 0, !.whole = TRUE]
<1>1. /\ UploadTypeInv /\ UploadTypeOK /\ PartCount \in Nat \ {0}
      /\ damaged \subseteq Uploads /\ recorded \subseteq FileNames /\ directories \subseteq begun
      /\ part \in [Uploads -> [PartIds -> {"none", "cut", "whole"}]]
      /\ latest \in [Uploads -> [PartIds -> Chunkers \cup {NoOne}]]
      /\ files \in [FileNames -> Writers \cup {NoOne}]
  BY UploadsAssumption DEF UploadInv, UploadTypeInv, UploadTypeOK
<1>2. /\ writer[w] \in WriterType /\ writer[w].name \in FileNames
      /\ writer[w].at \in {"copying", "cleaning"} => w \in Mergers
  BY <1>1 DEF UploadTypeInv, UploadTypeOK, WriterType, Writers
<1>3. ASSUME NEW x \in WriterType, writer' = [writer EXCEPT ![w] = x],
             writer[w].at \in {"created", "copying", "cleaning"}, x.at \notin {"unsent", "named"},
             x.name = writer[w].name,
             w \in Mergers => /\ x.whole \/ x.up \in damaged'
                              /\ x.at \in Engaged => x.up \in Uploads,
             x.at \notin {"cleaning", "stored"} => x.copied < PartCount,
             w \in Savers => x.at \notin {"copying", "cleaning"},
             UNCHANGED <<begun, files, chunker>>, directories' \subseteq begun,
             part' \in [Uploads -> [PartIds -> {"none", "cut", "whole"}]],
             latest' \in [Uploads -> [PartIds -> Chunkers \cup {NoOne}]],
             \A u \in Uploads, i \in PartIds : part'[u][i] = "cut" =>
               part[u][i] = "cut" /\ latest'[u][i] = latest[u][i],
             recorded' \subseteq FileNames, damaged \subseteq damaged', damaged' \subseteq Uploads
      PROVE  UploadInv'
  <2>1. /\ UploadTypeInv' /\ writer'[w] = x
        /\ \A v \in Writers : v # w => writer'[v] = writer[v]
    <3>1. /\ w \in Mergers /\ x.at \in Engaged => x.up \in Uploads
          /\ begun' = begun /\ chunker' = chunker
          /\ files' \in [FileNames -> Writers \cup {NoOne}]
      BY <1>1, <1>3
    <3> HIDE DEF Refused
    <3> QED BY <1>1, <1>3, <3>1, WriterMoves, ZenonT(60)
  <2>2. CutInv'
    BY <1>3 DEF UploadInv, CutInv
  <2>3. WholeInv'
    BY <1>3, <2>1 DEF UploadInv, WholeInv, Writers
  <2>4. FileInv'
    BY <1>3, <2>1, CreatedKeepsFiles
  <2> QED BY <2>1, <2>2, <2>3, <2>4 DEF UploadInv
<1>4. ASSUME writer' = [writer EXCEPT ![w] = Refused],
             writer[w].at \in {"created", "copying", "cleaning"},
             UNCHANGED <<begun, directories, part, latest, chunker, files, recorded, damaged>>
      PROVE  UploadInv'
  <2>1. /\ Refused \in WriterType /\ Refused.at = "refused" /\ Refused.name = writer[w].name
        /\ Refused.whole = TRUE /\ Refused.copied = 0
    <3> DEFINE r1 == [writer[w] EXCEPT !.at = "refused"]
               r2 == [r1 EXCEPT !.up = NoOne]
               r3 == [r2 EXCEPT !.copied = 0]
    <3>1. r1 \in WriterType
      BY <1>2 DEF WriterType
    <3>2. r2 \in WriterType
      BY <3>1 DEF WriterType
    <3>3. r3 \in WriterType
      <4>1. 0 \in 0..PartCount
        BY <1>1
      <4> HIDE DEF r2
      <4> QED BY <3>2, <4>1 DEF WriterType
    <3>4. [r3 EXCEPT !.whole = TRUE] \in WriterType
      BY <3>3 DEF WriterType
    <3>5. Refused.at = "refused" /\ Refused.name = writer[w].name
      BY <1>2 DEF WriterType
    <3>6. Refused.whole = TRUE /\ Refused.copied = 0
      BY <1>2 DEF WriterType
    <3> QED BY <3>4, <3>5, <3>6
  <2> HIDE DEF Refused
  <2>2. Refused.at \notin Engaged /\ Refused.copied < PartCount
    BY <1>1, <2>1 DEF Engaged
  <2> QED BY <1>1, <1>3, <1>4, <2>1, <2>2
<1>5. CASE MergeChecks(w)
  <2> DEFINE x == [writer[w] EXCEPT !.at = "copying"]
  <2>1. /\ w \in Mergers /\ writer[w].at = "created"
        /\ UNCHANGED <<begun, directories, part, latest, chunker, files, recorded, damaged>>
        /\ writer' = [writer EXCEPT ![w] = Refused] \/ writer' = [writer EXCEPT ![w] = x]
    BY <1>5 DEF MergeChecks, MergeRefused
  <2>2. CASE writer' = [writer EXCEPT ![w] = Refused]
    <3> HIDE DEF Refused
    <3> QED BY <1>4, <2>1, <2>2
  <2>3. CASE writer' = [writer EXCEPT ![w] = x]
    <3>1. /\ x \in WriterType /\ x.at = "copying" /\ x.name = writer[w].name /\ x.up = writer[w].up
          /\ x.copied = writer[w].copied /\ x.whole = writer[w].whole
      BY <1>2 DEF WriterType
    <3>2. /\ writer[w].whole \/ writer[w].up \in damaged
          /\ writer[w].up \in Uploads /\ writer[w].copied < PartCount /\ w \notin Savers
      BY <1>1, <2>1, UploadsAssumption DEF UploadInv, WholeInv, UploadTypeInv, Engaged
    <3> HIDE DEF x, Refused
    <3> QED BY <1>1, <1>3, <2>1, <2>3, <3>1, <3>2
  <2> HIDE DEF x, Refused
  <2> QED BY <2>1, <2>2, <2>3
<1>6. CASE MergeCopies(w)
  <2> DEFINE u == writer[w].up
             i == writer[w].copied + 1
             x == [writer[w] EXCEPT !.copied = i, !.whole = writer[w].whole /\ part[u][i] = "whole",
                                    !.at = IF i = PartCount THEN "cleaning" ELSE "copying"]
  <2>1. /\ writer[w].at = "copying" /\ w \in Mergers
        /\ UNCHANGED <<begun, directories, part, latest, chunker, files, recorded>>
        /\ \/ /\ part[u][i] # "none" /\ writer' = [writer EXCEPT ![w] = x]
              /\ damaged' = IF i \in OpenParts(u) THEN damaged \cup {u} ELSE damaged
           \/ writer' = [writer EXCEPT ![w] = Refused] /\ UNCHANGED damaged
    <3>1. writer[w].at = "copying" /\ w \in Mergers
          /\ UNCHANGED <<begun, directories, part, latest, chunker, files, recorded>>
      BY <1>2, <1>6 DEF MergeCopies
    <3>2. \/ /\ part[u][i] # "none" /\ writer' = [writer EXCEPT ![w] = x]
             /\ damaged' = IF i \in OpenParts(u) THEN damaged \cup {u} ELSE damaged
          \/ writer' = [writer EXCEPT ![w] = Refused] /\ UNCHANGED damaged
      BY <1>6, Zenon DEF MergeCopies, MergeRefused
    <3> QED BY <3>1, <3>2
  <2>2. CASE writer' = [writer EXCEPT ![w] = Refused] /\ UNCHANGED damaged
    <3> HIDE DEF Refused
    <3> QED BY <1>4, <2>1, <2>2
  <2>3. CASE /\ part[u][i] # "none" /\ writer' = [writer EXCEPT ![w] = x]
             /\ damaged' = IF i \in OpenParts(u) THEN damaged \cup {u} ELSE damaged
    <3>1. u \in Uploads /\ i \in PartIds /\ i \in 0..PartCount /\ (i # PartCount => i < PartCount)
      <4>1. u \in Uploads /\ writer[w].copied < PartCount /\ writer[w].copied \in 0..PartCount
        BY <1>1, <1>2, <2>1 DEF UploadTypeInv, Engaged, WriterType
      <4> QED BY <1>1, <4>1 DEF PartIds
    <3>2. /\ x \in WriterType /\ x.at = (IF i = PartCount THEN "cleaning" ELSE "copying")
          /\ x.name = writer[w].name /\ x.up = u /\ x.copied = i
          /\ x.whole = (writer[w].whole /\ part[u][i] = "whole")
      BY <1>2, <3>1 DEF WriterType
    <3> HIDE DEF x, Refused
    <3>3. x.whole \/ u \in damaged'
      <4>1. writer[w].whole \/ u \in damaged
        BY <2>1 DEF UploadInv, WholeInv
      <4>2. part[u][i] \in {"cut", "whole"}
        BY <1>1, <2>3, <3>1
      <4>3. CASE part[u][i] = "cut"
        <5>1. u \in damaged \/ \E c \in Chunkers : /\ chunker[c].at = "writing"
                                                   /\ chunker[c].up = u /\ chunker[c].part = i
          BY <3>1, <4>3 DEF UploadInv, CutInv
        <5>2. u \in damaged \/ i \in OpenParts(u)
          <6> HIDE DEF u, i
          <6> QED BY <5>1 DEF OpenParts
        <5> QED BY <2>3, <5>2
      <4>4. CASE part[u][i] = "whole"
        BY <2>3, <3>2, <4>1, <4>4
      <4> QED BY <4>2, <4>3, <4>4
    <3>4. damaged \subseteq damaged' /\ damaged' \subseteq Uploads /\ w \notin Savers
      BY <1>1, <2>1, <2>3, <3>1, UploadsAssumption
    <3> HIDE DEF u, i
    <3> QED BY <1>1, <1>3, <2>1, <2>3, <3>1, <3>2, <3>3, <3>4
  <2> HIDE DEF x, Refused, u, i
  <2> QED BY <2>1, <2>2, <2>3
<1>7. CASE MergeCleans(w)
  <2> DEFINE u == writer[w].up
             x == [writer[w] EXCEPT !.at = "stored"]
  <2>1. PICK stay \in {{}, OpenParts(u)} :
          /\ directories' = IF stay = {} THEN directories \ {u} ELSE directories
          /\ part' = [part EXCEPT ![u] = [i \in PartIds |-> IF i \in stay THEN @[i] ELSE "none"]]
          /\ latest' = [latest EXCEPT ![u] = [i \in PartIds |-> IF i \in stay THEN @[i] ELSE NoOne]]
    BY <1>7 DEF MergeCleans
  <2>2. /\ writer[w].at = "cleaning" /\ w \in Mergers /\ writer' = [writer EXCEPT ![w] = x]
        /\ UNCHANGED <<begun, chunker, files, recorded, damaged>>
    BY <1>2, <1>7 DEF MergeCleans
  <2>3. u \in Uploads /\ w \notin Savers
    BY <1>1, <2>2, UploadsAssumption DEF UploadTypeInv, Engaged
  <2>4. /\ x \in WriterType /\ x.at = "stored" /\ x.name = writer[w].name /\ x.up = u
        /\ x.whole = writer[w].whole
    BY <1>2 DEF WriterType
  <2>5. writer[w].whole \/ u \in damaged'
    BY <2>2 DEF UploadInv, WholeInv
  <2> HIDE DEF u, x
  <2>6. part' \in [Uploads -> [PartIds -> {"none", "cut", "whole"}]]
    BY <1>1, <2>1, <2>3
  <2>7. latest' \in [Uploads -> [PartIds -> Chunkers \cup {NoOne}]]
    BY <1>1, <2>1, <2>3
  <2>8. \A v \in Uploads, i \in PartIds : part'[v][i] = "cut" =>
          part[v][i] = "cut" /\ latest'[v][i] = latest[v][i]
    BY <1>1, <2>1, <2>3
  <2>9. directories' \subseteq begun /\ x.at \notin Engaged
    BY <1>1, <2>1, <2>4 DEF Engaged
  <2> QED BY <1>1, <1>3, <2>2, <2>3, <2>4, <2>5, <2>6, <2>7, <2>8, <2>9
<1>8. CASE SaveEnds(w)
  <2>1. /\ w \in Savers /\ writer[w].at = "created" /\ recorded' \subseteq FileNames
        /\ UNCHANGED <<begun, directories, part, latest, chunker, files, damaged>>
        /\ \E at \in {"stored", "refused"} : writer' = [writer EXCEPT ![w] = [writer[w] EXCEPT !.at = at]]
    BY <1>1, <1>2, <1>8 DEF SaveEnds
  <2>2. PICK at \in {"stored", "refused"} : writer' = [writer EXCEPT ![w] = [writer[w] EXCEPT !.at = at]]
    BY <2>1
  <2> DEFINE x == [writer[w] EXCEPT !.at = at]
  <2>3. /\ x \in WriterType /\ x.at = at /\ x.name = writer[w].name /\ x.copied = writer[w].copied
    BY <1>2, <2>2 DEF WriterType
  <2>4. w \notin Mergers /\ writer[w].copied < PartCount
    BY <1>1, <2>1, UploadsAssumption DEF UploadTypeInv
  <2> HIDE DEF x
  <2> QED BY <1>1, <1>3, <2>1, <2>2, <2>3, <2>4 DEF x
<1> QED BY <1>5, <1>6, <1>7, <1>8

\* The invariant is inductive.
LEMMA UploadStepInv == OneMerge /\ UploadInv /\ [UploadNext]_uploadVars => UploadInv'
<1> SUFFICES ASSUME OneMerge, UploadInv, [UploadNext]_uploadVars PROVE UploadInv'
  OBVIOUS
<1>1. CASE UNCHANGED uploadVars
  BY <1>1, ChunkKeepsFiles DEF uploadVars, UploadInv, UploadTypeInv, UploadTypeOK, CutInv
<1>2. CASE UploadNext
  BY <1>2, InitUploadKeepsInv, ChunkKeepsInv, CreateKeepsInv, NameKeepsInv, MergeKeepsInv DEF UploadNext
<1> QED BY <1>1, <1>2

\* With one merge at a time, whatever requests are sent in whatever order, a merge
\* that answered success left a file of its own with every part whole in it, but for
\* the damages and the saves DamageExplained names.
THEOREM DamagesAreExplained ==
  ASSUME OneMerge
  PROVE  UploadSpec => [](UploadTypeOK /\ DamageExplained)
<1>1. UploadInv => UploadTypeOK /\ DamageExplained
  <2>1. UploadInv => UploadTypeOK
    BY DEF UploadInv, UploadTypeInv
  <2> SUFFICES ASSUME UploadInv, NEW m \in Mergers, writer[m].at = "stored"
               PROVE  /\ writer[m].whole \/ writer[m].up \in damaged
                      /\ files[writer[m].name] = m \/ Overtaken(m)
    BY <2>1 DEF DamageExplained, Overtaken
  <2> QED BY DEF UploadInv, WholeInv, FileInv
<1>2. UploadInv /\ [UploadNext]_uploadVars => UploadInv'
  BY UploadStepInv
<1> QED BY <1>1, <1>2, UploadInitInv, PTL DEF UploadSpec
=============================================================================
