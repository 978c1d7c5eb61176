--------------------------- MODULE Machine_proofs ---------------------------
(* Proofs about the parts of a machine. Self-update, the USB builder and the *)
(* dotfiles are proved here; the macOS settings, the Docker runtimes and the *)
(* accounts in modules of their own, which this one instantiates. A step of  *)
(* the machine is one of a part or leaves it alone, so what holds of each    *)
(* part's steps holds of the machine's.                                      *)
EXTENDS MCMachine, Sequences, TLAPS

-----------------------------------------------------------------------------
(* Self-update                                                             *)

Stages ==
  {"idle", "look", "check", "checksums", "binary", "archive", "verify", "replace", "beside"}

(* What was fetched so far is of some release; once verified, of one.      *)
FetchedInv ==
  /\ stage \in Stages
  /\ stage \in {"archive", "verify", "replace", "beside"} => fetchedBinary # 0
  /\ stage \in {"verify", "replace", "beside"} => fetchedArchive # 0
  /\ stage \in {"replace", "beside"} => fetchedBinary = fetchedArchive
  /\ stage = "beside" => binary = fetchedBinary

(* The binary is the one that runs until it is replaced; what was named is *)
(* checked not to be older, and unless a release is withdrawn what is      *)
(* fetched is not older than what was named.                               *)
OrderInv ==
  /\ stage \in Stages \ {"idle", "beside"} => running = binary
  /\ stage \in Stages \ {"idle", "look", "check"} => named >= running
  /\ stage \notin {"idle", "look"} => moved \/ latest >= named
  /\ stage \in {"archive", "verify", "replace"} => moved \/ fetchedBinary >= named

UpdateInv == Update!TypeOK /\ Update!Matched /\ FetchedInv /\ OrderInv

LEMMA UpdateInit == Update!Init => UpdateInv
<1>. SUFFICES ASSUME Update!Init
              PROVE  UpdateInv
  OBVIOUS
<1>1. MaxVersion \in Nat /\ MaxUpdates \in Nat /\ MaxMoves \in Nat
  BY BoundsAssumption
<1>2. latest \in 1..MaxVersion /\ binary \in 1..MaxVersion
  BY <1>1 DEF Update!Init, Update!Version
<1>3. Update!TypeOK
  <2>1. {latest, binary, archive, running} \subseteq Update!Version
    BY <1>2 DEF Update!Init, Update!Version
  <2>2. {named, sums, fetchedBinary, fetchedArchive} \subseteq Update!Version \cup {Update!None}
    BY DEF Update!Init
  <2>3. cut \in BOOLEAN /\ moved \in BOOLEAN
    BY DEF Update!Init
  <2>4. updates \in 0..MaxUpdates /\ moves \in 0..MaxMoves
    BY <1>1 DEF Update!Init
  <2>. QED
    BY <2>1, <2>2, <2>3, <2>4 DEF Update!TypeOK
<1>4. stage = "idle" /\ binary = archive
  BY DEF Update!Init
<1>5. Update!Matched
  BY <1>4 DEF Update!Matched
<1>6. FetchedInv
  BY <1>4 DEF FetchedInv, Stages
<1>7. OrderInv
  BY <1>4 DEF OrderInv, Stages
<1>. QED
  BY <1>3, <1>5, <1>6, <1>7 DEF UpdateInv

LEMMA UpdateNext == UpdateInv /\ [Update!Next]_(Update!vars) => UpdateInv'
<1>. SUFFICES ASSUME UpdateInv, [Update!Next]_(Update!vars)
              PROVE  UpdateInv'
  OBVIOUS
<1>a. MaxVersion \in Nat /\ MaxUpdates \in Nat /\ MaxMoves \in Nat
  BY BoundsAssumption
<1>b. /\ latest \in 1..MaxVersion /\ binary \in 1..MaxVersion /\ running \in 1..MaxVersion
      /\ named \in Nat /\ fetchedBinary \in Nat
  BY <1>a DEF UpdateInv, Update!TypeOK, Update!Version, Update!None
<1>. USE DEF UpdateInv, Update!TypeOK, Update!Matched, Update!Version, Update!None, FetchedInv,
             OrderInv, Stages, Update!fetched
<1>1. CASE Update!Publish
  <2>1. Update!TypeOK'
    BY <1>a, <1>b, <1>1 DEF Update!Publish
  <2>2. Update!Matched' /\ FetchedInv'
    BY <1>1 DEF Update!Publish
  <2>3. latest' >= latest \/ moved' \/ stage \in {"idle", "look"}
    <3>1. latest' \in Nat
      BY <1>a, <2>1
    <3>2. CASE latest' < latest /\ stage \notin {"idle", "look"}
      BY <1>1, <3>2, Zenon DEF Update!Publish
    <3>3. CASE ~(latest' < latest)
      BY <1>b, <3>1, <3>3
    <3>. QED
      BY <3>2, <3>3
  <2>4. OrderInv'
    BY <1>b, <1>1, <2>1, <2>3 DEF Update!Publish
  <2>. QED
    BY <2>1, <2>2, <2>4
<1>2. CASE Update!Begin
  <2>1. Update!TypeOK'
    <3>1. {latest, binary, archive, running}' \subseteq Update!Version
      BY <1>a, <1>2 DEF Update!Begin
    <3>2. {named, sums, fetchedBinary, fetchedArchive}'
             \subseteq Update!Version \cup {Update!None}
      BY <1>a, <1>2 DEF Update!Begin
    <3>3. cut' \in BOOLEAN /\ moved' \in BOOLEAN
      BY <1>2 DEF Update!Begin
    <3>4. updates' \in 0..MaxUpdates /\ moves' \in 0..MaxMoves
      BY <1>a, <1>2 DEF Update!Begin
    <3>. QED
      BY <3>1, <3>2, <3>3, <3>4
  <2>2. Update!Matched' /\ FetchedInv'
    BY <1>2 DEF Update!Begin
  <2>3. OrderInv'
    BY <1>b, <1>2 DEF Update!Begin
  <2>. QED
    BY <2>1, <2>2, <2>3
<1>12. CASE Update!UpToDate
  BY <1>a, <1>b, <1>12 DEF Update!UpToDate
<1>13. CASE Update!Look
  BY <1>b, <1>13 DEF Update!Look
<1>3. CASE Update!Check
  BY <1>3 DEF Update!Check, Update!NotOlder
<1>4. CASE Update!FetchChecksums
  BY <1>4 DEF Update!FetchChecksums
<1>5. CASE Update!FetchBinary
  BY <1>5 DEF Update!FetchBinary
<1>6. CASE Update!FetchArchive
  BY <1>6 DEF Update!FetchArchive
<1>7. CASE Update!Verify
  BY <1>7 DEF Update!Verify, Update!Verified
<1>8. CASE Update!ReplaceBinary
  BY <1>8 DEF Update!ReplaceBinary
<1>9. CASE Update!ReplaceArchive
  BY <1>9 DEF Update!ReplaceArchive
<1>10. CASE Update!Stop
  BY <1>10 DEF Update!Stop
<1>11. CASE UNCHANGED Update!vars
  BY <1>11 DEF Update!vars
<1>. QED
  BY <1>1, <1>2, <1>3, <1>4, <1>5, <1>6, <1>7, <1>8, <1>9, <1>10, <1>11, <1>12,
     <1>13 DEF Update!Next

(* The step that replaces the binary puts in place a release that is not   *)
(* older than the one that was named, which is not older than what ran.    *)
LEMMA UpdateNotOlder ==
  UpdateInv /\ [Update!Next]_(Update!vars) => [binary' >= binary \/ moved]_(Update!vars)
<1>. SUFFICES ASSUME UpdateInv, Update!Next
              PROVE  binary' >= binary \/ moved
  OBVIOUS
<1>1. binary \in Nat /\ named \in Nat /\ fetchedBinary \in Nat
  BY BoundsAssumption DEF UpdateInv, Update!TypeOK, Update!Version, Update!None
<1>2. CASE Update!ReplaceBinary
  BY <1>1, <1>2 DEF UpdateInv, OrderInv, Stages, Update!ReplaceBinary
<1>3. CASE ~Update!ReplaceBinary
  <2>1. binary' = binary
    BY <1>3 DEF Update!Next, Update!Publish, Update!UpToDate, Update!Begin, Update!Look,
                Update!Check, Update!FetchChecksums, Update!FetchBinary, Update!FetchArchive, Update!Verify, Update!ReplaceArchive,
                Update!Stop
  <2>. QED
    BY <1>1, <2>1
<1>. QED
  BY <1>2, <1>3

LEMMA UpdateInvariance == Update!Spec => []UpdateInv
BY UpdateInit, UpdateNext, PTL DEF Update!Spec

-----------------------------------------------------------------------------
(* The USB builder                                                         *)

(* What the run's next step relies on: nothing is finished before the end, *)
(* the stick is told to boot the pinned image before it is marked, and what *)
(* is copied is the user's file or a cache file with the pinned bytes.      *)
BuildInv ==
  /\ build # "idle" => ~finished
  /\ build \in {"marker", "fetch", "copy", "copying"} => boots = pin
  /\ build \in {"copy", "copying"} => useLocal \/ cached[pin] = "good"

(* An update whose stick does not have the image is one that began so.      *)
UpdateKeepsImage ==
  build \in {"ventoy", "payload", "marker"} /\ mode = "update" => lacking \/ isos[pin] = "good"

MediaInv ==
  Media!TypeOK /\ Media!VerifiedOnly /\ Media!Bootable /\ BuildInv /\ UpdateKeepsImage

LEMMA MediaInit == Media!Init => MediaInv
<1>. SUFFICES ASSUME Media!Init
              PROVE  MediaInv
  OBVIOUS
<1>. USE DEF Media!Init, Media!None
<1>1. Media!TypeOK
  <2>1. {ventoy, marked, refresh, useLocal, finished, lacking} \subseteq BOOLEAN
    OBVIOUS
  <2>2. builds \in 0..MaxBuilds /\ changes \in 0..MaxChanges
    BY BoundsAssumption
  <2>. QED
    BY <2>1, <2>2 DEF Media!TypeOK
<1>2. Media!VerifiedOnly /\ Media!Bootable
  BY DEF Media!VerifiedOnly, Media!Bootable
<1>3. BuildInv /\ UpdateKeepsImage
  BY DEF BuildInv, UpdateKeepsImage
<1>. QED
  BY <1>1, <1>2, <1>3 DEF MediaInv

LEMMA MediaNext == MediaInv /\ [Media!Next]_(Media!vars) => MediaInv'
<1>. SUFFICES ASSUME MediaInv, [Media!Next]_(Media!vars)
              PROVE  MediaInv'
  OBVIOUS
<1>a. MaxBuilds \in Nat /\ MaxChanges \in Nat
  BY BoundsAssumption
<1>. USE <1>a, ImagesAssumption
     DEF MediaInv, Media!TypeOK, Media!VerifiedOnly, Media!Bootable, BuildInv, UpdateKeepsImage,
         Media!stick, Media!plans, Media!None
<1>1. CASE Media!Begin
  <2>. USE <1>1 DEF Media!Begin, Media!Ours
  <2>1. {ventoy, marked, refresh, useLocal, finished, lacking}' \subseteq BOOLEAN
    OBVIOUS
  <2>2. builds' \in 0..MaxBuilds /\ changes' \in 0..MaxChanges
    OBVIOUS
  <2>3. Media!TypeOK'
    BY <2>1, <2>2
  <2>4. Media!VerifiedOnly' /\ Media!Bootable' /\ BuildInv'
    OBVIOUS
  <2>5. UpdateKeepsImage'
    OBVIOUS
  <2>. QED
    BY <2>3, <2>4, <2>5
<1>2. CASE Media!InstallVentoy
  BY <1>2 DEF Media!InstallVentoy
<1>3. CASE Media!StageConfig
  BY <1>3 DEF Media!StageConfig
<1>4. CASE Media!WriteMarker
  BY <1>4 DEF Media!WriteMarker
<1>5. CASE Media!Fetch
  BY <1>5 DEF Media!Fetch, Media!Has
<1>6. CASE Media!StartCopy
  BY <1>6 DEF Media!StartCopy
<1>7. CASE Media!EndCopy
  BY <1>7 DEF Media!EndCopy
<1>8. CASE Media!Abort
  BY <1>8 DEF Media!Abort
<1>9. CASE Media!Change
  BY <1>9 DEF Media!Change
<1>10. CASE UNCHANGED Media!vars
  BY <1>10 DEF Media!vars
<1>. QED
  BY <1>1, <1>2, <1>3, <1>4, <1>5, <1>6, <1>7, <1>8, <1>9, <1>10 DEF Media!Next

LEMMA MediaInvariance == Media!Spec => []MediaInv
BY MediaInit, MediaNext, PTL DEF Media!Spec

-----------------------------------------------------------------------------
(* The files that are taken over                                           *)

Copied(f, line) == \E i \in 1..Len(backups[f]) : line \in backups[f][i].lines

(* A line that may leave the file: there is a copy of it, or no promise.   *)
Safe(f, line) == Copied(f, line) \/ <<f, line>> \in exposed

(* The apply is about this file, and has made its copy.                    *)
Past(f) == f \in targets /\ apply # "idle" /\ ~(apply = "back_up" /\ f \in queue)

BackupsType == backups \in [RcFile -> Seq(Rc!Contents)]

(* Once its copy is made, all that a file holds may be replaced ...        *)
PastInv == \A f \in RcFile : Past(f) => \A line \in content[f].lines : Safe(f, line)

(* ... and what is recorded as dev-boost's own needs no copy any more: it  *)
(* was recorded of a file whose copy had been made.                        *)
DigestInv == \A f \in RcFile : \A line \in digest[f].lines : Safe(f, line)

RcInv == Rc!TypeOK /\ BackupsType /\ PastInv /\ DigestInv /\ Rc!NothingLost

LEMMA RcInit == Rc!Init => RcInv
<1>. SUFFICES ASSUME Rc!Init
              PROVE  RcInv
  OBVIOUS
<1>. USE DEF Rc!Init, Rc!Contents, Rc!Foreign, Rc!NoDigest
<1>a. MaxReleases \in Nat /\ MaxReleases >= 1 /\ MaxApplies \in Nat
  BY BoundsAssumption, FilesAssumption
<1>1. content \in [RcFile -> Rc!Contents]
  BY <1>a
<1>2. digest \in [RcFile -> Rc!Contents]
  BY <1>a
<1>3. BackupsType
  BY DEF BackupsType
<1>4. Rc!TypeOK
  BY <1>a, <1>1, <1>2 DEF Rc!TypeOK
<1>5. PastInv /\ DigestInv
  BY DEF PastInv, DigestInv, Past
<1>6. Rc!NothingLost
  BY DEF Rc!NothingLost
<1>. QED
  BY <1>3, <1>4, <1>5, <1>6 DEF RcInv

(* Copies are only added.                                                  *)
LEMMA SafeStays ==
  ASSUME BackupsType, [Rc!Next]_(Rc!vars), NEW f \in RcFile, NEW line, Safe(f, line)
  PROVE  Safe(f, line)'
<1>1. exposed \subseteq exposed'
  BY DEF Rc!Next, Rc!Edit, Rc!AppendLine, Rc!Update, Rc!ApplyAll, Rc!ApplyOwn, Rc!ApplyRepo,
         Rc!Begin, Rc!BackUp, Rc!Write, Rc!Record, Rc!Stamp, Rc!Cut, Rc!vars
<1>2. CASE UNCHANGED backups
  BY <1>1, <1>2 DEF Safe, Copied
<1>3. CASE \E g \in RcFile : Rc!BackUp(g)
  <2>1. PICK g \in RcFile : Rc!BackUp(g)
    BY <1>3
  <2>2. backups' = backups \/ backups' = [backups EXCEPT ![g] = Append(@, content[g])]
    BY <2>1 DEF Rc!BackUp
  <2>3. backups'[f] = backups[f] \/ backups'[f] = Append(backups[f], content[g])
    BY <2>2 DEF BackupsType
  <2>4. \A i \in 1..Len(backups[f]) : i \in 1..Len(backups'[f]) /\ backups'[f][i] = backups[f][i]
    <3>1. backups[f] \in Seq(Rc!Contents)
      BY DEF BackupsType
    <3>. QED
      BY <2>3, <3>1
  <2>. QED
    BY <1>1, <2>4 DEF Safe, Copied
<1>. QED
  BY <1>2, <1>3
  DEF Rc!Next, Rc!Edit, Rc!AppendLine, Rc!Update, Rc!ApplyAll, Rc!ApplyOwn, Rc!ApplyRepo,
      Rc!Begin, Rc!Write, Rc!Record, Rc!Stamp, Rc!Cut, Rc!vars

(* Where no file changes, or only to lose lines that are safe, and the     *)
(* copies and the promises stay, nothing is lost.                          *)
LEMMA NothingLostIf ==
  ASSUME RcInv, [Rc!Next]_(Rc!vars), written' \ exposed' \subseteq written \ exposed,
         \A f \in RcFile : \A line \in content[f].lines :
           line \in content'[f].lines \/ Safe(f, line)'
  PROVE  Rc!NothingLost'
<1>. SUFFICES ASSUME NEW fl \in written' \ exposed'
              PROVE  fl[2] \in content'[fl[1]].lines \/ Copied(fl[1], fl[2])'
  BY DEF Rc!NothingLost, Copied
<1>1. fl \in RcFile \X Line /\ fl = <<fl[1], fl[2]>>
  BY DEF RcInv, Rc!TypeOK
<1>2. fl[2] \in content[fl[1]].lines \/ Copied(fl[1], fl[2])
  BY DEF RcInv, Rc!NothingLost, Copied
<1>3. CASE Copied(fl[1], fl[2])
  BY <1>1, <1>3, SafeStays DEF Safe, RcInv
<1>4. CASE fl[2] \in content[fl[1]].lines
  BY <1>1, <1>4 DEF Safe
<1>. QED
  BY <1>2, <1>3, <1>4

LEMMA RcNext == RcInv /\ [Rc!Next]_(Rc!vars) => RcInv'
<1>. SUFFICES ASSUME RcInv, [Rc!Next]_(Rc!vars)
              PROVE  RcInv'
  OBVIOUS
<1>a. MaxReleases \in Nat /\ MaxReleases >= 1 /\ MaxApplies \in Nat
  BY BoundsAssumption, FilesAssumption
<1>b. Own \subseteq RcFile
  BY FilesAssumption
<1>c. /\ content \in [RcFile -> Rc!Contents] /\ digest \in [RcFile -> Rc!Contents]
      /\ backups \in [RcFile -> Seq(Rc!Contents)]
      /\ queue \subseteq targets /\ targets \subseteq RcFile
  BY DEF RcInv, Rc!TypeOK, BackupsType
<1>s. \A f \in RcFile : \A line : Safe(f, line) => Safe(f, line)'
  BY SafeStays DEF RcInv
<1>. DEFINE Copies == \A f \in RcFile : \A j \in 1..Len(backups[f]) : backups[f][j] \in Rc!Contents
<1>t. BackupsType' => Copies'
  BY DEF BackupsType
<1>. USE DEF Rc!Foreign, Rc!NoDigest
<1>1. CASE Rc!Edit
  <2>1. PICK f \in RcFile, line \in Line : <<f, line>> \notin written /\ Rc!AppendLine(f, line)
    BY <1>1 DEF Rc!Edit
  <2>2. /\ content' = [content EXCEPT ![f].lines = @ \cup {line}]
        /\ written' = written \cup {<<f, line>>}
        /\ exposed' = IF Past(f) THEN exposed \cup {<<f, line>>} ELSE exposed
        /\ UNCHANGED <<backups, digest, stamp, release, apply, source, targets, queue, applies>>
    BY <2>1 DEF Rc!AppendLine, Past
  <2>3. content' \in [RcFile -> Rc!Contents]
    BY <1>c, <2>2 DEF Rc!Contents
  <2>4. BackupsType'
    BY <2>2 DEF RcInv, BackupsType
  <2>5. Rc!TypeOK'
    BY <1>a, <1>t, <2>2, <2>3, <2>4 DEF RcInv, Rc!TypeOK
  <2>6. ASSUME NEW g \in RcFile, NEW l \in content'[g].lines
        PROVE  l \in content[g].lines \/ (g = f /\ l = line)
    BY <1>c, <2>2, <2>6 DEF Rc!Contents
  <2>7. PastInv'
    <3>. SUFFICES ASSUME NEW g \in RcFile, Past(g)', NEW l \in content'[g].lines
                  PROVE  Safe(g, l)'
      BY DEF PastInv
    <3>1. Past(g)
      BY <2>2 DEF Past
    <3>2. CASE l \in content[g].lines
      BY <1>s, <3>1, <3>2 DEF RcInv, PastInv
    <3>3. CASE g = f /\ l = line
      BY <2>2, <3>1, <3>3 DEF Safe
    <3>. QED
      BY <2>6, <3>2, <3>3
  <2>8. DigestInv'
    BY <1>s, <2>2 DEF RcInv, DigestInv
  <2>9. Rc!NothingLost'
    <3>. SUFFICES ASSUME NEW fl \in written' \ exposed'
                  PROVE  fl[2] \in content'[fl[1]].lines \/ Copied(fl[1], fl[2])'
      BY DEF Rc!NothingLost, Copied
    <3>1. CASE fl = <<f, line>>
      BY <1>c, <2>2, <3>1 DEF Rc!Contents
    <3>2. CASE fl # <<f, line>>
      <4>1. fl \in written \ exposed /\ fl \in RcFile \X Line
        BY <2>2, <3>2 DEF RcInv, Rc!TypeOK
      <4>2. fl[2] \in content[fl[1]].lines \/ Copied(fl[1], fl[2])
        BY <4>1 DEF RcInv, Rc!NothingLost, Copied
      <4>3. content[fl[1]].lines \subseteq content'[fl[1]].lines
        BY <1>c, <2>2, <4>1 DEF Rc!Contents
      <4>. QED
        BY <2>2, <4>2, <4>3 DEF Copied
    <3>. QED
      BY <3>1, <3>2
  <2>. QED
    BY <2>4, <2>5, <2>7, <2>8, <2>9 DEF RcInv
<1>2. CASE \E f \in RcFile : Rc!BackUp(f)
  <2>1. PICK f \in RcFile : Rc!BackUp(f)
    BY <1>2
  <2>. USE <2>1 DEF Rc!BackUp
  <2>2. BackupsType'
    BY <1>c DEF BackupsType
  <2>3. Rc!TypeOK'
    BY <1>a, <1>t, <2>2 DEF RcInv, Rc!TypeOK
  <2>4. \A line \in content[f].lines : Safe(f, line)'
    <3>. SUFFICES ASSUME NEW line \in content[f].lines
                  PROVE  Safe(f, line)'
      OBVIOUS
    <3>1. CASE Rc!Unchanged(f)
      <4>1. line \in digest[f].lines
        BY <3>1 DEF Rc!Unchanged
      <4>. QED
        BY <1>s, <4>1 DEF RcInv, DigestInv
    <3>2. CASE Rc!Kept(f)
      <4>1. Len(backups[f]) \in 1..Len(backups[f]) /\ backups[f][Len(backups[f])] = content[f]
        BY <1>c, <3>2 DEF Rc!Kept, Rc!Last
      <4>2. Safe(f, line)
        BY <4>1 DEF Safe, Copied
      <4>. QED
        BY <1>s, <4>2
    <3>3. CASE ~(Rc!Unchanged(f) \/ Rc!Kept(f))
      <4>1. backups'[f] = Append(backups[f], content[f])
        BY <1>c, <3>3
      <4>2. /\ Len(backups[f]) + 1 \in 1..Len(backups'[f])
            /\ backups'[f][Len(backups[f]) + 1] = content[f]
        BY <1>c, <4>1
      <4>. QED
        BY <4>2 DEF Safe, Copied
    <3>. QED
      BY <3>1, <3>2, <3>3
  <2>5. PastInv'
    <3>. SUFFICES ASSUME NEW g \in RcFile, Past(g)'
                  PROVE  \A line \in content[g].lines : Safe(g, line)'
      BY DEF PastInv
    <3>1. g = f \/ Past(g)
      BY DEF Past
    <3>. QED
      BY <1>s, <2>4, <3>1 DEF RcInv, PastInv
  <2>6. DigestInv'
    BY <1>s DEF RcInv, DigestInv
  <2>7. Rc!NothingLost'
    BY NothingLostIf
  <2>. QED
    BY <2>2, <2>3, <2>5, <2>6, <2>7 DEF RcInv
<1>3. CASE \E f \in RcFile : Rc!Write(f)
  <2>1. PICK f \in RcFile : Rc!Write(f)
    BY <1>3
  <2>. USE <2>1 DEF Rc!Write
  <2>2. content' = content \/ \E base \in {release, 0} :
                                content' = [content EXCEPT ![f] = [base |-> base, lines |-> {}]]
    OBVIOUS
  <2>3. content' \in [RcFile -> Rc!Contents]
    <3>1. \A base \in {release, 0} : [base |-> base, lines |-> {}] \in Rc!Contents
      BY <1>a DEF RcInv, Rc!TypeOK, Rc!Contents
    <3>. QED
      BY <1>c, <2>2, <3>1
  <2>4. BackupsType' /\ Rc!TypeOK'
    BY <1>a, <1>t, <2>3 DEF RcInv, Rc!TypeOK, BackupsType
  <2>5. \A g \in RcFile : content'[g] = content[g] \/ (g = f /\ content'[g].lines = {})
    BY <1>c, <2>2
  <2>6. PastInv'
    BY <1>s, <2>5 DEF RcInv, PastInv, Past
  <2>7. DigestInv'
    BY <1>s DEF RcInv, DigestInv
  <2>8. Past(f)
    BY <1>c DEF Past
  <2>9. \A g \in RcFile : \A line \in content[g].lines :
          line \in content'[g].lines \/ Safe(g, line)'
    BY <1>s, <2>5, <2>8 DEF RcInv, PastInv
  <2>10. Rc!NothingLost'
    BY <2>9, NothingLostIf
  <2>. QED
    BY <2>4, <2>6, <2>7, <2>10 DEF RcInv
<1>4. CASE Rc!Record
  <2>. USE <1>4 DEF Rc!Record
  <2>1. \A f \in RcFile : \/ digest'[f] = digest[f]
                          \/ digest'[f] = Rc!NoDigest
                          \/ f \in targets /\ digest'[f] = content[f]
    BY DEF Rc!Recorded, Rc!Digest
  <2>2. digest' \in [RcFile -> Rc!Contents]
    <3>1. Rc!NoDigest \in Rc!Contents
      BY <1>a DEF Rc!Contents
    <3>2. \A f \in RcFile : digest'[f] \in Rc!Contents
      BY <1>c, <2>1, <3>1
    <3>3. digest' = [f \in RcFile |-> digest'[f]]
      BY <1>c DEF Rc!Recorded
    <3>. QED
      BY <3>2, <3>3
  <2>3. BackupsType' /\ Rc!TypeOK'
    BY <1>t, <2>2 DEF RcInv, Rc!TypeOK, BackupsType
  <2>4. PastInv'
    BY <1>s DEF RcInv, PastInv, Past
  <2>5. DigestInv'
    <3>. SUFFICES ASSUME NEW f \in RcFile, NEW line \in digest'[f].lines
                  PROVE  Safe(f, line)'
      BY DEF DigestInv
    <3>1. CASE digest'[f] = digest[f]
      BY <1>s, <3>1 DEF RcInv, DigestInv
    <3>2. CASE digest'[f] = Rc!NoDigest
      BY <3>2
    <3>3. CASE f \in targets /\ digest'[f] = content[f]
      <4>1. Past(f)
        BY <3>3 DEF Past
      <4>. QED
        BY <1>s, <3>3, <4>1 DEF RcInv, PastInv
    <3>. QED
      BY <2>1, <3>1, <3>2, <3>3
  <2>6. Rc!NothingLost'
    BY NothingLostIf
  <2>. QED
    BY <2>3, <2>4, <2>5, <2>6 DEF RcInv
<1>5. CASE \/ Rc!Update \/ Rc!ApplyAll \/ Rc!ApplyOwn \/ Rc!ApplyRepo \/ Rc!Stamp \/ Rc!Cut
           \/ UNCHANGED Rc!vars
  <2>. USE <1>5 DEF Rc!Update, Rc!ApplyAll, Rc!ApplyOwn, Rc!ApplyRepo, Rc!Begin, Rc!Stamp,
                    Rc!Cut, Rc!Finished, Rc!vars
  <2>1. UNCHANGED <<content, backups, digest, written, exposed>>
    OBVIOUS
  <2>2. BackupsType'
    BY <2>1 DEF RcInv, BackupsType
  <2>3. Rc!TypeOK'
    <3>1. stamp' \in 0..release' /\ release' \in 1..MaxReleases /\ applies' \in 0..MaxApplies
      BY <1>a DEF RcInv, Rc!TypeOK
    <3>2. queue' \subseteq targets' /\ targets' \subseteq RcFile
      BY <1>b, <1>c
    <3>. QED
      BY <1>t, <2>1, <2>2, <3>1, <3>2 DEF RcInv, Rc!TypeOK
  <2>4. \A f \in RcFile : Past(f)' => Past(f)
    BY DEF Past
  <2>5. PastInv' /\ DigestInv'
    BY <1>s, <2>1, <2>4 DEF RcInv, PastInv, DigestInv
  <2>6. Rc!NothingLost'
    BY <2>1, NothingLostIf
  <2>. QED
    BY <2>2, <2>3, <2>5, <2>6 DEF RcInv
<1>. QED
  BY <1>1, <1>2, <1>3, <1>4, <1>5 DEF Rc!Next

LEMMA RcInvariance == Rc!Spec => []RcInv
BY RcInit, RcNext, PTL DEF Rc!Spec

-----------------------------------------------------------------------------
(* The parts together                                                       *)

(* The proofs of the parts that have a module of their own.                 *)
DefaultsProofs == INSTANCE MacDefaults_proofs
DockerProofs == INSTANCE DockerSwitch_proofs
UsersProofs == INSTANCE Accounts_proofs

LEMMA Bounded == DefaultsProofs!Bounds /\ DockerProofs!Bounds /\ UsersProofs!Bounds
BY BoundsAssumption DEF DefaultsProofs!Bounds, DockerProofs!Bounds, UsersProofs!Bounds

(* A step of the machine is one of a part, or leaves the part alone.        *)
LEMMA Steps ==
  [Next]_vars =>
    /\ Update!Next \/ UNCHANGED updateVars
    /\ Media!Next \/ UNCHANGED mediaVars
    /\ Rc!Next \/ UNCHANGED rcVars
    /\ Defaults!Next \/ UNCHANGED defaultsVars
    /\ Docker!Next \/ UNCHANGED dockerVars
    /\ Users!Next \/ UNCHANGED usersVars
BY DEF Next, DefaultsStep, DockerStep, RcStep, UpdateStep, UsersStep, MediaStep, vars

LEMMA UpdatePart == Spec => Update!Spec
<1>1. Init => Update!Init
  BY DEF Init
<1>2. [Next]_vars => [Update!Next]_(Update!vars)
  BY Steps DEF updateVars, Update!fetched, Update!vars
<1>. QED
  BY <1>1, <1>2, PTL DEF Spec, Update!Spec

LEMMA MediaPart == Spec => Media!Spec
<1>1. Init => Media!Init
  BY DEF Init
<1>2. [Next]_vars => [Media!Next]_(Media!vars)
  BY Steps DEF mediaVars, Media!stick, Media!plans, Media!vars
<1>. QED
  BY <1>1, <1>2, PTL DEF Spec, Media!Spec

LEMMA RcPart == Spec => Rc!Spec
<1>1. Init => Rc!Init
  BY DEF Init
<1>2. [Next]_vars => [Rc!Next]_(Rc!vars)
  BY Steps DEF rcVars, Rc!vars
<1>. QED
  BY <1>1, <1>2, PTL DEF Spec, Rc!Spec

LEMMA DefaultsPart == Spec => DefaultsProofs!Spec
<1>1. Init => DefaultsProofs!Init
  <2>1. Init => Defaults!Init
    BY DEF Init
  <2>2. Defaults!Init => DefaultsProofs!Init
    BY Zenon DEF Defaults!Setting, Defaults!Ours, Defaults!Absent, Defaults!Other,
                 Defaults!Values, Defaults!NoPrior, Defaults!Init, DefaultsProofs!Setting,
                 DefaultsProofs!Ours, DefaultsProofs!Absent, DefaultsProofs!Other,
                 DefaultsProofs!Values, DefaultsProofs!NoPrior, DefaultsProofs!Init
  <2>. QED
    BY <2>1, <2>2
<1>2. [Next]_vars => [DefaultsProofs!Next]_(DefaultsProofs!vars)
  <2>1. Defaults!Next => DefaultsProofs!Next
    BY Zenon DEF Defaults!Setting, Defaults!Ours, Defaults!Absent, Defaults!Other,
                 Defaults!Values, Defaults!NoPrior, Defaults!User, Defaults!Start,
                 Defaults!Apply, Defaults!Revert, Defaults!Turn, Defaults!Probe,
                 Defaults!SetDefault, Defaults!Save, Defaults!Write, Defaults!Stop,
                 Defaults!PassOver, Defaults!Restore, Defaults!DeleteInVain, Defaults!Remaining,
                 Defaults!Finally, Defaults!Next, Defaults!Min, DefaultsProofs!Setting,
                 DefaultsProofs!Ours, DefaultsProofs!Absent, DefaultsProofs!Other,
                 DefaultsProofs!Values, DefaultsProofs!NoPrior, DefaultsProofs!User,
                 DefaultsProofs!Start, DefaultsProofs!Apply, DefaultsProofs!Revert,
                 DefaultsProofs!Turn, DefaultsProofs!Probe, DefaultsProofs!SetDefault,
                 DefaultsProofs!Save, DefaultsProofs!Write, DefaultsProofs!Stop,
                 DefaultsProofs!PassOver, DefaultsProofs!Restore, DefaultsProofs!DeleteInVain,
                 DefaultsProofs!Remaining, DefaultsProofs!Finally, DefaultsProofs!Next,
                 DefaultsProofs!Min
  <2>2. UNCHANGED defaultsVars => UNCHANGED DefaultsProofs!vars
    BY DEF defaultsVars, DefaultsProofs!vars
  <2>. QED
    BY <2>1, <2>2, Steps
<1>. QED
  BY <1>1, <1>2, PTL DEF Spec, DefaultsProofs!Spec

LEMMA DockerPart == Spec => DockerProofs!Spec
<1>1. Init => DockerProofs!Init
  <2>1. Init => Docker!Init
    BY DEF Init
  <2>2. Docker!Init => DockerProofs!Init
    BY Zenon DEF Docker!Colima, Docker!None, Docker!Init, DockerProofs!Colima, DockerProofs!None,
                 DockerProofs!Init
  <2>. QED
    BY <2>1, <2>2
<1>2. [Next]_vars => [DockerProofs!Next]_(DockerProofs!vars)
  <2>1. Docker!Next => DockerProofs!Next
    BY Zenon DEF Docker!Colima, Docker!Runtime, Docker!None, Docker!machine, Docker!command,
                 Docker!history, Docker!Begin, Docker!ToStop, Docker!Use, Docker!Install,
                 Docker!Abort, Docker!Stale, Docker!StopEngine, Docker!StopInVain,
                 Docker!Unheard, Docker!DisableAutostart,
                 Docker!DisableInVain, Docker!Stopped, Docker!ReleaseInVain, Docker!ReleaseSocket, Docker!InstallRuntime,
                 Docker!Configure, Docker!Start, Docker!StartEngine, Docker!PointCli,
                 Docker!AfterCap, Docker!MergeDaemonConfig, Docker!Restart, Docker!RestartEngine,
                 Docker!Finish, Docker!Reboot, Docker!ByHand, Docker!Next, DockerProofs!Colima,
                 DockerProofs!Runtime, DockerProofs!None, DockerProofs!machine,
                 DockerProofs!command, DockerProofs!history, DockerProofs!Begin,
                 DockerProofs!ToStop, DockerProofs!Use, DockerProofs!Install, DockerProofs!Abort,
                 DockerProofs!Stale, DockerProofs!StopEngine, DockerProofs!StopInVain,
                 DockerProofs!Unheard, DockerProofs!DisableAutostart,
                 DockerProofs!DisableInVain, DockerProofs!Stopped, DockerProofs!ReleaseInVain, DockerProofs!ReleaseSocket,
                 DockerProofs!InstallRuntime, DockerProofs!Configure, DockerProofs!Start,
                 DockerProofs!StartEngine, DockerProofs!PointCli, DockerProofs!AfterCap,
                 DockerProofs!MergeDaemonConfig, DockerProofs!Restart,
                 DockerProofs!RestartEngine, DockerProofs!Finish, DockerProofs!Reboot,
                 DockerProofs!ByHand, DockerProofs!Next
  <2>2. UNCHANGED dockerVars => UNCHANGED DockerProofs!vars
    BY DEF dockerVars, DockerProofs!machine, DockerProofs!command, DockerProofs!history,
           DockerProofs!vars
  <2>. QED
    BY <2>1, <2>2, Steps
<1>. QED
  BY <1>1, <1>2, PTL DEF Spec, DockerProofs!Spec

LEMMA UsersPart == Spec => UsersProofs!Spec
<1>1. Init => UsersProofs!Init
  <2>1. Init => Users!Init
    BY DEF Init
  <2>2. Users!Init => UsersProofs!Init
    BY Zenon DEF Users!Unmanaged, Users!Rights, Users!Init, UsersProofs!Unmanaged,
                 UsersProofs!Rights, UsersProofs!Init
  <2>. QED
    BY <2>1, <2>2
<1>2. [Next]_vars => [UsersProofs!Next]_(UsersProofs!vars)
  <2>1. Users!Next => UsersProofs!Next
    BY Zenon DEF Users!Privileges, Users!Users, Users!Unmanaged, Users!account, Users!Granted,
                 Users!DisableSteps, Users!ApplySteps, Users!EnableSteps, Users!DeleteSteps,
                 Users!Order, Users!Create, Users!Edit, Users!With, Users!Disable, Users!Enable,
                 Users!Apply, Users!Delete, Users!Due, Users!Goes, Users!Done, Users!Save,
                 Users!Terminate, Users!Lock, Users!Unlock, Users!EnsureUser, Users!SetGroup,
                 Users!SudoersContent, Users!SetSudoers, Users!SetSlice, Users!Applied,
                 Users!RemoveSudoers, Users!RemoveGroup, Users!ClearSlice, Users!Userdel,
                 Users!Drop, Users!Unchecked, Users!InVain, Users!Abort, Users!Login, Users!Next,
                 UsersProofs!Privileges, UsersProofs!Users, UsersProofs!Unmanaged,
                 UsersProofs!account, UsersProofs!Granted, UsersProofs!DisableSteps,
                 UsersProofs!ApplySteps, UsersProofs!EnableSteps, UsersProofs!DeleteSteps,
                 UsersProofs!Order, UsersProofs!Create, UsersProofs!Edit, UsersProofs!With,
                 UsersProofs!Disable, UsersProofs!Enable, UsersProofs!Apply, UsersProofs!Delete,
                 UsersProofs!Due, UsersProofs!Goes, UsersProofs!Done, UsersProofs!Save,
                 UsersProofs!Terminate, UsersProofs!Lock, UsersProofs!Unlock,
                 UsersProofs!EnsureUser, UsersProofs!SetGroup, UsersProofs!SudoersContent,
                 UsersProofs!SetSudoers, UsersProofs!SetSlice, UsersProofs!Applied,
                 UsersProofs!RemoveSudoers, UsersProofs!RemoveGroup, UsersProofs!ClearSlice,
                 UsersProofs!Userdel, UsersProofs!Drop, UsersProofs!Unchecked,
                 UsersProofs!InVain, UsersProofs!Abort, UsersProofs!Login, UsersProofs!Next
  <2>2. UNCHANGED usersVars => UNCHANGED UsersProofs!vars
    BY DEF usersVars, UsersProofs!account, UsersProofs!vars
  <2>. QED
    BY <2>1, <2>2, Steps
<1>. QED
  BY <1>1, <1>2, PTL DEF Spec, UsersProofs!Spec

-----------------------------------------------------------------------------
(* The theorems                                                             *)

(* Every variable of every part stays in its range.                         *)
THEOREM TypeCorrect == Spec => []TypeOK
<1>1. Spec => [](Update!TypeOK /\ Media!TypeOK /\ Rc!TypeOK)
  BY UpdatePart, UpdateInvariance, MediaPart, MediaInvariance, RcPart, RcInvariance, PTL
  DEF UpdateInv, MediaInv, RcInv
<1>2. Spec => [](DefaultsProofs!TypeOK /\ DockerProofs!TypeOK /\ UsersProofs!TypeOK)
  BY Bounded, DefaultsPart, DefaultsProofs!TypeCorrect, DockerPart, DockerProofs!TypeCorrect,
     UsersPart, UsersProofs!TypeCorrect, PTL
<1>3. DefaultsProofs!TypeOK => Defaults!TypeOK
  BY Zenon DEF Defaults!Setting, Defaults!Ours, Defaults!Absent, Defaults!Other, Defaults!Values,
               Defaults!PartialValues, Defaults!TypeOK, DefaultsProofs!Setting,
               DefaultsProofs!Ours, DefaultsProofs!Absent, DefaultsProofs!Other,
               DefaultsProofs!Values, DefaultsProofs!PartialValues, DefaultsProofs!TypeOK
<1>4. DockerProofs!TypeOK => Docker!TypeOK
  BY Zenon DEF Docker!Colima, Docker!Runtime, Docker!None, Docker!TypeOK, DockerProofs!Colima,
               DockerProofs!Runtime, DockerProofs!None, DockerProofs!TypeOK
<1>5. UsersProofs!TypeOK => Users!TypeOK
  BY Zenon DEF Users!Privileges, Users!Users, Users!TypeOK, UsersProofs!Privileges,
               UsersProofs!Users, UsersProofs!TypeOK
<1>. QED
  BY <1>1, <1>2, <1>3, <1>4, <1>5, PTL DEF TypeOK

(* However many applies and reverts of the macOS settings fail or are cut   *)
(* off, what the user had before our value can still be given back          *)
(* (macos_defaults.py:260).                                                 *)
THEOREM DefaultsRecoverable == Spec => []Recoverable
<1>1. Spec => []DefaultsProofs!Recoverable
  BY Bounded, DefaultsPart, DefaultsProofs!CanGiveBack, PTL
<1>2. DefaultsProofs!Recoverable => Defaults!Recoverable
  BY Zenon DEF Defaults!Recoverable, DefaultsProofs!Recoverable
<1>. QED
  BY <1>1, <1>2, PTL DEF Recoverable

(* Applies and reverts do to the settings and to the file what the snapshot *)
(* is for: nothing is overwritten that is not on record, and nothing on     *)
(* record is dropped before it is given back.                               *)
THEOREM DefaultsKeepThePromise == Spec => ImplementsSnapshot
<1>1. Spec => DefaultsProofs!Promise!Spec
  BY Bounded, DefaultsPart, DefaultsProofs!KeepsItsPromise, PTL
  DEF DefaultsProofs!ImplementsSnapshot
<1>2. DefaultsProofs!Promise!Init => Defaults!Promise!Init
  BY Zenon DEF Defaults!Promise!Init, DefaultsProofs!Promise!Init, Defaults!Setting,
               Defaults!Ours, Defaults!Absent, Defaults!Other, Defaults!Values,
               DefaultsProofs!Setting, DefaultsProofs!Ours, DefaultsProofs!Absent,
               DefaultsProofs!Other, DefaultsProofs!Values
<1>3. [DefaultsProofs!Promise!Next]_(DefaultsProofs!Promise!vars)
        => [Defaults!Promise!Next]_(Defaults!Promise!vars)
  BY Zenon DEF Defaults!Promise!UserSets, Defaults!Promise!Record, Defaults!Promise!Overwrite,
               Defaults!Promise!GiveBack, Defaults!Promise!GiveUp, Defaults!Promise!Forget,
               Defaults!Promise!Next, Defaults!Promise!vars, DefaultsProofs!Promise!UserSets,
               DefaultsProofs!Promise!Record, DefaultsProofs!Promise!Overwrite,
               DefaultsProofs!Promise!GiveBack, DefaultsProofs!Promise!GiveUp,
               DefaultsProofs!Promise!Forget, DefaultsProofs!Promise!Next,
               DefaultsProofs!Promise!vars, Defaults!Setting, Defaults!Ours, Defaults!Absent,
               Defaults!Other, Defaults!Values, DefaultsProofs!Setting, DefaultsProofs!Ours,
               DefaultsProofs!Absent, DefaultsProofs!Other, DefaultsProofs!Values
<1>. QED
  BY <1>1, <1>2, <1>3, PTL
  DEF ImplementsSnapshot, Defaults!ImplementsSnapshot, Defaults!Promise!Spec,
      DefaultsProofs!Promise!Spec

(* After a finished switch, and through restarts, the chosen Docker runtime *)
(* runs and no other that `installed` counts does, whatever commands before *)
(* it failed or were killed (_docker_switch.py:58-67), save one of which    *)
(* this switch itself failed unheard to stop the engine, take back the      *)
(* start at login or unlink the socket.                                     *)
THEOREM SwitchChoosesOne == Spec => []OnlyChosen
<1>1. Spec => []DockerProofs!OnlyChosen
  BY Bounded, DockerPart, DockerProofs!SwitchChoosesOne, PTL
<1>2. DockerProofs!OnlyChosen => Docker!OnlyChosen
  BY Zenon DEF Docker!Colima, Docker!None, Docker!OnlyChosen, DockerProofs!Colima,
               DockerProofs!None, DockerProofs!OnlyChosen
<1>. QED
  BY <1>1, <1>2, PTL DEF OnlyChosen

(* After a finished switch the engine that runs has the build cache's cap   *)
(* (_docker_switch.py:147-148).                                             *)
THEOREM EngineHasCap == Spec => []CapInForce
<1>1. Spec => []DockerProofs!CapInForce
  BY Bounded, DockerPart, DockerProofs!EngineHasCap, PTL
<1>2. DockerProofs!CapInForce => Docker!CapInForce
  BY Zenon DEF Docker!None, Docker!CapInForce, DockerProofs!None, DockerProofs!CapInForce
<1>. QED
  BY <1>1, <1>2, PTL DEF CapInForce

(* No line that was added to a taken-over file is lost to an apply: it is   *)
(* in the file or in a copy of it, over all releases and applies cut off.   *)
THEOREM LinesSurvive == Spec => []NothingLost
BY RcPart, RcInvariance, PTL DEF NothingLost, RcInv

(* The binary and its archive are of one release, or an update was cut off  *)
(* between the two and none has replaced both since.                        *)
THEOREM BinaryMatchesArchive == Spec => []Matched
BY UpdatePart, UpdateInvariance, PTL DEF Matched, UpdateInv

(* A self-update does not put in place an older binary than the one that    *)
(* was there, unless a release was withdrawn while it ran.                  *)
THEOREM BinaryNeverOlder == Spec => NeverOlder
BY UpdatePart, UpdateInvariance, UpdateNotOlder, PTL
DEF NeverOlder, Update!NeverOlder, Update!Spec

(* Whichever account commands fail, are killed or go on after a failure, a  *)
(* managed user has no right that neither its entry nor one not yet         *)
(* replaced on the machine grants (reconcile.py:20-29).                     *)
THEOREM NoRightUnaccounted == Spec => []LeastPrivilege
<1>1. Spec => []UsersProofs!LeastPrivilege
  BY Bounded, UsersPart, UsersProofs!NoRightUnaccounted, PTL
<1>2. UsersProofs!LeastPrivilege => Users!LeastPrivilege
  BY Zenon DEF Users!Granted, Users!Rights, Users!LeastPrivilege, UsersProofs!Granted,
               UsersProofs!Rights, UsersProofs!LeastPrivilege
<1>. QED
  BY <1>1, <1>2, PTL DEF LeastPrivilege

(* An account command that did all its steps leaves the account as its      *)
(* entry says (docs/accounts.md:234).                                       *)
THEOREM CommandsConverge == Spec => []Converged
<1>1. Spec => []UsersProofs!Converged
  BY Bounded, UsersPart, UsersProofs!CommandsConverge, PTL
<1>2. UsersProofs!Converged => Users!Converged
  BY Zenon DEF Users!Granted, Users!Rights, Users!Converged, UsersProofs!Granted,
               UsersProofs!Rights, UsersProofs!Converged
<1>. QED
  BY <1>1, <1>2, PTL DEF Converged

(* Only the pinned bytes of an image, or the user's own file, are put on a  *)
(* stick whole, whatever the mirror serves and the cache holds.             *)
THEOREM StickHasPinnedBytes == Spec => []VerifiedOnly
BY MediaPart, MediaInvariance, PTL DEF VerifiedOnly, MediaInv

(* A finished run of the USB builder leaves a stick with the image that it  *)
(* boots.                                                                   *)
THEOREM StickBoots == Spec => []Bootable
BY MediaPart, MediaInvariance, PTL DEF Bootable, MediaInv

=============================================================================
