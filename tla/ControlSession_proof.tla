------------------------- MODULE ControlSession_proof -------------------------
(***************************************************************************)
(* Proofs about ControlSession, for every set of receivers, number of      *)
(* files, sections, retries and faults: the types; that a receiver is      *)
(* counted as completed only when it has stored the file; and, as long as  *)
(* no transfer id is used again, that no receiver is handed a file while   *)
(* it has another one, and that a completed receiver stays completed.      *)
(***************************************************************************)
EXTENDS ControlSession, SequenceTheorems, FiniteSetTheorems, TLAPS

------------------------------------------------------------------------------
(* The inductive invariant *)

\* What the proxy may see of a receiver that has stored the files S: a frame or a
\* record that says a transfer is complete is about a file in S.
HonestFrames(S) == {f \in ProxyFrames : f.type = "RECEIVER_COMPLETE" => f.id[1] \in S}
HonestConns(S) ==
    [open : BOOLEAN, eof : BOOLEAN, toProxy : Seq(HonestFrames(S)), toRcv : Seq(RcvFrames)]
HonestInfos(S) == {i \in Infos : i.state = "Completed" => i.id[1] \in S}
HonestRegs(S) ==
    {reg \in [state : {"Idle", "Receiving", "Completed"}, id : Ids] :
        reg.state = "Completed" => reg.id[1] \in S}

ConnsGood(c) == c \in [Receivers -> Conns] /\ \A r \in Receivers : c[r] \in HonestConns(stored[r])
InfosGood(i) == i \in [Receivers -> Infos] /\ \A r \in Receivers : i[r] \in HonestInfos(stored[r])

\* The flags of a receiver are about the file the proxy is at.
FlagsOf(i, f, S) == (i.completed => f \in S) /\ (i.meta # NoId => i.meta[1] = f)
FlagsGood(i) == \A r \in Receivers : FlagsOf(i[r], file, stored[r])

\* A receiver that waits for COMPLETE_ACK has stored its file.
AwaitingIsStored == \A r \in Receivers : phase[r] = "awaiting" => cur[r][1] \in stored[r]

\* Between two files the flags are still about the one before; a cached file has
\* been begun.
Honest ==
    /\ AwaitingIsStored /\ InfosGood(info) /\ ConnsGood(conn)
    /\ (pc # "begin" \/ cached) => FlagsGood(info)

Inv == TypeOK /\ Honest

------------------------------------------------------------------------------
(* Lemmas about the operators *)

LEMMA FilesIsNat == Files \in Nat /\ 1 <= Files
  BY SessionAssumption, LenProperties, EmptySeq DEF Files

LEMMA IdFile == \A id \in Ids : id[1] \in 0 .. Files
  BY FilesIsNat DEF Ids, NoId, OldId

\* An honest connection is a connection, and stays honest when more is stored.
LEMMA HonestIsConn ==
    ASSUME NEW S, NEW T, S \subseteq T, NEW c \in HonestConns(S)
    PROVE  c \in Conns /\ c \in HonestConns(T)
<1>1. HonestFrames(S) \subseteq ProxyFrames /\ HonestFrames(S) \subseteq HonestFrames(T)
  BY DEF HonestFrames
<1>2. c.toProxy \in Seq(ProxyFrames) /\ c.toProxy \in Seq(HonestFrames(T))
  BY <1>1, SeqMonotonic DEF HonestConns
<1> QED
  BY <1>2 DEF HonestConns, Conns

\* What is left of a connection when it is closed, read, or written to by the
\* proxy.
LEMMA ClosedGood ==
    ASSUME NEW S, NEW c \in HonestConns(S) PROVE Closed(c) \in HonestConns(S)
<1>1. <<>> \in Seq(HonestFrames(S))
  BY EmptySeq
<1> QED
  BY <1>1 DEF Closed, HonestConns

LEMMA PoppedGood ==
    ASSUME NEW S, NEW c \in HonestConns(S), c.toProxy # <<>>
    PROVE  /\ [c EXCEPT !.toProxy = Tail(@)] \in HonestConns(S)
           /\ Head(c.toProxy) \in HonestFrames(S)
<1>1. Tail(c.toProxy) \in Seq(HonestFrames(S)) /\ Head(c.toProxy) \in HonestFrames(S)
  BY HeadTailProperties DEF HonestConns
<1> QED
  BY <1>1 DEF HonestConns

LEMMA SentGood ==
    ASSUME NEW S, NEW c \in HonestConns(S), NEW frames \in Seq(RcvFrames),
           NEW up, NEW fails
    PROVE  Sent(c, up, frames, fails) \in HonestConns(S)
<1>1. Closed(c) \in HonestConns(S)
  BY ClosedGood
<1>2. c.toRcv \o frames \in Seq(RcvFrames)
  BY ConcatProperties DEF HonestConns
<1>3. [c EXCEPT !.toRcv = @ \o frames] \in HonestConns(S)
  BY <1>2 DEF HonestConns
<1> QED
  BY <1>1, <1>3 DEF Sent

LEMMA SendOnGood ==
    ASSUME NEW cs, ConnsGood(cs), NEW links, NEW frames \in [Receivers -> Seq(RcvFrames)],
           SendOn(cs, links, frames)
    PROVE  /\ conn' \in [Receivers -> Conns]
           /\ \A r \in Receivers : conn'[r] \in HonestConns(stored[r])
<1>1. PICK fails \in SUBSET Receivers :
        conn' = [r \in Receivers |->
                    Sent(cs[r], links[r] = "up", frames[r], r \in fails)]
  BY DEF SendOn
<1>2. ASSUME NEW r \in Receivers
      PROVE  conn'[r] \in HonestConns(stored[r]) /\ conn'[r] \in Conns
  <2>1. cs[r] \in HonestConns(stored[r]) /\ frames[r] \in Seq(RcvFrames)
    BY DEF ConnsGood
  <2>2. Sent(cs[r], links[r] = "up", frames[r], r \in fails) \in HonestConns(stored[r])
    BY <2>1, SentGood
  <2> QED
    BY <1>1, <2>2, HonestIsConn
<1> QED
  BY <1>1, <1>2

\* The frames the proxy sends.
LEMMA FrameType ==
    ASSUME NEW id \in Ids,
           NEW type \in {"FILE_META", "BACKFILL", "COMPLETE_ACK", "TRANSFER_FAILED", "SESSION_END"}
    PROVE  Frame(type, id) \in RcvFrames /\ <<Frame(type, id)>> \in Seq(RcvFrames)
<1>1. Frame(type, id) \in RcvFrames
  BY DEF Frame, RcvFrames
<1> QED
  BY <1>1

LEMMA NoFramesType == NoFrames \in [Receivers -> Seq(RcvFrames)]
<1>1. <<>> \in Seq(RcvFrames)
  BY EmptySeq
<1> QED
  BY <1>1 DEF NoFrames

LEMMA StaleType ==
    ASSUME NEW state, NEW id \in Ids PROVE Stale(state, id) \in Seq(RcvFrames)
  BY FrameType, EmptySeq DEF Stale

------------------------------------------------------------------------------
(* Registration *)

LEMMA RegistrationGood ==
    ASSUME TypeOK, AwaitingIsStored, NEW r \in Receivers
    PROVE  Registration(r) \in HonestRegs(stored[r])
<1>1. cur[r] \in Ids /\ phase[r] \in {"idle", "receiving", "awaiting", "shafailed"}
  BY DEF TypeOK
<1>2. phase[r] = "awaiting" => cur[r][1] \in stored[r]
  BY DEF AwaitingIsStored
<1> QED
  BY <1>1, <1>2 DEF Registration, HonestRegs

LEMMA KnownGood ==
    ASSUME NEW S, NEW i \in HonestInfos(S), NEW reg \in HonestRegs(S)
    PROVE  /\ Known(i, reg) \in HonestInfos(S)
           /\ Known(i, reg).completed = i.completed /\ Known(i, reg).meta = i.meta
  BY DEF Known, HonestInfos, HonestRegs, Infos

\* A registration keeps the records and the flags right: the completion it
\* recovers is one of a file the receiver has stored.
LEMMA InstalledGood ==
    ASSUME NEW S, NEW i \in HonestInfos(S), NEW reg \in HonestRegs(S)
    PROVE  /\ Installed(i, reg) \in HonestInfos(S)
           /\ \A f : FlagsOf(i, f, S) => FlagsOf(Installed(i, reg), f, S)
           /\ InstallFrames(i, reg) \in Seq(RcvFrames)
<1> DEFINE k == Known(i, reg)
<1>1. k \in HonestInfos(S) /\ k.completed = i.completed /\ k.meta = i.meta
  BY KnownGood
<1>2. i \in Infos /\ reg.id \in Ids /\ (reg.state = "Completed" => reg.id[1] \in S)
  BY DEF HonestInfos, HonestRegs
<1> HIDE DEF k
<1>3. CASE i.meta = NoId
  <2>1. Installed(i, reg) = k /\ InstallFrames(i, reg) = <<>>
    BY <1>3, Zenon DEF Installed, InstallFrames, RecoversCompletion, IsReopened, IsRefused, k
  <2> QED
    BY <1>1, <2>1, EmptySeq DEF FlagsOf
<1>4. CASE RecoversCompletion(i, reg)
  <2>1. Installed(i, reg) = [k EXCEPT !.abandoned = FALSE, !.metaReady = TRUE,
                                      !.completed = TRUE]
    BY <1>4, Zenon DEF Installed, RecoversCompletion, IsReopened, k
  <2>2. reg.id = i.meta /\ i.meta # NoId /\ i.meta[1] \in S
    BY <1>2, <1>4 DEF RecoversCompletion
  <2>3. /\ Installed(i, reg) \in HonestInfos(S) /\ Installed(i, reg).meta = i.meta
        /\ Installed(i, reg).completed = TRUE
    BY <1>1, <2>1 DEF HonestInfos, Infos
  <2>4. InstallFrames(i, reg) = <<Frame("COMPLETE_ACK", i.meta)>>
    BY <1>4, Zenon DEF InstallFrames, IsReopened, IsRefused
  <2> QED
    BY <1>2, <2>2, <2>3, <2>4, FrameType DEF FlagsOf, Infos
<1>5. CASE i.meta # NoId /\ ~RecoversCompletion(i, reg) /\ IsReopened(i, reg)
  <2>1. Installed(i, reg) =
             [i EXCEPT !.metaReady = FALSE, !.completed = FALSE, !.ready = FALSE,
                       !.isolated = FALSE, !.status = "NO_REPORT",
                       !.state = "Receiving", !.id = i.meta]
    BY <1>5 DEF Installed
  <2>2. i.meta \in Ids
    BY <1>2 DEF Infos
  <2>3. /\ Installed(i, reg) \in HonestInfos(S) /\ Installed(i, reg).meta = i.meta
        /\ Installed(i, reg).completed = FALSE
    BY <1>2, <2>1, <2>2 DEF HonestInfos, Infos
  <2>4. /\ Stale(reg.state, reg.id) \in Seq(RcvFrames) /\ <<>> \in Seq(RcvFrames)
        /\ <<Frame("FILE_META", i.meta)>> \in Seq(RcvFrames)
    BY <1>2, <2>2, StaleType, FrameType, EmptySeq
  <2>5. InstallFrames(i, reg) \in Seq(RcvFrames)
    <3>1. InstallFrames(i, reg) = (IF reg.id = i.meta THEN <<>> ELSE Stale(reg.state, reg.id))
                                  \o <<Frame("FILE_META", i.meta)>>
      BY <1>5, Zenon DEF InstallFrames, IsReopened, IsRefused
    <3>2. (IF reg.id = i.meta THEN <<>> ELSE Stale(reg.state, reg.id)) \in Seq(RcvFrames)
      BY <2>4
    <3> QED
      BY <2>4, <3>1, <3>2, ConcatProperties
  <2> QED
    BY <2>3, <2>5 DEF FlagsOf
<1>6. CASE i.meta # NoId /\ ~RecoversCompletion(i, reg) /\ ~IsReopened(i, reg)
  <2>1. Installed(i, reg) = [k EXCEPT !.ready = @ \/ reg.state = "Idle"]
    BY <1>6 DEF Installed, k
  <2>2. k.ready \in BOOLEAN
    BY <1>1 DEF HonestInfos, Infos
  <2>3. (k.ready \/ reg.state = "Idle") \in BOOLEAN
    BY <2>2
  <2>4. /\ Installed(i, reg) \in HonestInfos(S) /\ Installed(i, reg).meta = i.meta
        /\ Installed(i, reg).completed = i.completed
    BY <1>1, <2>1, <2>3 DEF HonestInfos, Infos
  <2>5. InstallFrames(i, reg) \in {<<Frame("TRANSFER_FAILED", i.meta)>>, <<>>}
    BY <1>6 DEF InstallFrames
  <2>6. i.meta \in Ids
    BY <1>2 DEF Infos
  <2>7. InstallFrames(i, reg) \in Seq(RcvFrames)
    BY <2>5, <2>6, FrameType, EmptySeq
  <2> QED
    BY <2>4, <2>7 DEF FlagsOf
<1> QED
  BY <1>3, <1>4, <1>5, <1>6

\* The data of the proxy after it accepted registrations.
LEMMA AfterGood ==
    ASSUME TypeOK, Honest, NEW from \in SUBSET Receivers
    PROVE  /\ InfosGood(InfoAfter(from)) /\ ConnsGood(ConnAfter(from))
           /\ LinkAfter(from) \in [Receivers -> {"up", "down", "pending", "gone"}]
           /\ FlagsGood(info) => FlagsGood(InfoAfter(from))
<1>1. ASSUME NEW r \in Receivers
      PROVE  /\ InfoAfter(from)[r] \in HonestInfos(stored[r])
             /\ FlagsOf(info[r], file, stored[r]) => FlagsOf(InfoAfter(from)[r], file, stored[r])
             /\ ConnAfter(from)[r] \in HonestConns(stored[r])
  <2>1. info[r] \in HonestInfos(stored[r]) /\ conn[r] \in HonestConns(stored[r])
    BY DEF Honest, InfosGood, ConnsGood
  <2> DEFINE reg == Registration(r)
  <2>2. /\ Installed(info[r], reg) \in HonestInfos(stored[r])
        /\ \A f : FlagsOf(info[r], f, stored[r]) => FlagsOf(Installed(info[r], reg), f, stored[r])
        /\ InstallFrames(info[r], reg) \in Seq(RcvFrames)
    BY <2>1, RegistrationGood, InstalledGood DEF Honest
  <2>3. Fresh(InstallFrames(info[r], reg)) \in HonestConns(stored[r])
    BY <2>2, EmptySeq DEF Fresh, HonestConns
  <2> HIDE DEF reg
  <2>4. InfoAfter(from)[r] = IF r \in from THEN Installed(info[r], reg) ELSE info[r]
    BY DEF InfoAfter, reg
  <2>5. ConnAfter(from)[r] = IF r \in from THEN Fresh(InstallFrames(info[r], reg)) ELSE conn[r]
    BY DEF ConnAfter, reg
  <2> QED
    BY <2>1, <2>2, <2>3, <2>4, <2>5
<1>2. InfoAfter(from) \in [Receivers -> Infos]
  BY <1>1 DEF InfoAfter, HonestInfos
<1>3. ConnAfter(from) \in [Receivers -> Conns]
  BY <1>1, HonestIsConn DEF ConnAfter
<1>4. LinkAfter(from) \in [Receivers -> {"up", "down", "pending", "gone"}]
  BY DEF LinkAfter, TypeOK
<1> QED
  BY <1>1, <1>2, <1>3, <1>4 DEF InfosGood, ConnsGood, FlagsGood

------------------------------------------------------------------------------
(* The records of the receivers *)

LEMMA TidType == ASSUME TypeOK PROVE Tid \in Ids /\ Tid # NoId /\ Tid[1] = file
  BY FilesIsNat DEF TypeOK, Tid, Ids, NoId

\* A change of other fields than these keeps the invariant.
LEMMA InfosKept ==
    ASSUME NEW i, InfosGood(i), NEW j \in [Receivers -> Infos],
           \A r \in Receivers : /\ j[r].state = i[r].state /\ j[r].id = i[r].id
                                /\ j[r].completed = i[r].completed /\ j[r].meta = i[r].meta
    PROVE  InfosGood(j) /\ (FlagsGood(i) => FlagsGood(j))
<1>1. InfosGood(j)
  BY DEF InfosGood, HonestInfos
<1>2. ASSUME FlagsGood(i), NEW r \in Receivers PROVE FlagsOf(j[r], file, stored[r])
  BY <1>2 DEF FlagsGood, FlagsOf
<1> QED
  BY <1>1, <1>2 DEF FlagsGood

LEMMA ConfirmedGood ==
    ASSUME TypeOK, NEW r \in Receivers, file \in stored[r], InfosGood(info), FlagsGood(info)
    PROVE  LET i == [info EXCEPT ![r] = Confirmed(@)] IN InfosGood(i) /\ FlagsGood(i)
<1> DEFINE i == [info EXCEPT ![r] = Confirmed(@)]
<1>1. info[r] \in Infos /\ Tid \in Ids /\ Tid[1] = file
  BY TidType DEF TypeOK
<1>2. /\ Confirmed(info[r]) \in Infos /\ Confirmed(info[r]).id[1] = file
      /\ Confirmed(info[r]).meta = info[r].meta
  BY <1>1 DEF Confirmed, Infos
<1>3. InfosGood(i)
  BY <1>2 DEF InfosGood, HonestInfos
<1>4. ASSUME NEW q \in Receivers PROVE FlagsOf(i[q], file, stored[q])
  <2>1. FlagsOf(info[q], file, stored[q])
    BY DEF FlagsGood
  <2>2. info \in [Receivers -> Infos]
    BY DEF TypeOK
  <2>3. CASE q = r
    BY <1>2, <2>1, <2>2, <2>3 DEF FlagsOf
  <2>4. CASE q # r
    BY <2>1, <2>2, <2>4
  <2> QED
    BY <2>3, <2>4
<1> QED
  BY <1>3, <1>4 DEF FlagsGood

LEMMA EnterBarrierGood ==
    ASSUME NEW i, InfosGood(i), NEW then, EnterBarrier(i, then)
    PROVE  InfosGood(info') /\ (FlagsGood(i) => FlagsGood(info'))
<1>1. i \in [Receivers -> Infos]
  BY DEF InfosGood
<1>2. \A r \in Receivers : info'[r] = [i[r] EXCEPT !.ready = FALSE]
  BY DEF EnterBarrier
<1>3. info' \in [Receivers -> Infos]
  BY <1>1 DEF EnterBarrier, Infos
<1>4. ASSUME NEW r \in Receivers
      PROVE  /\ info'[r].state = i[r].state /\ info'[r].id = i[r].id
             /\ info'[r].completed = i[r].completed /\ info'[r].meta = i[r].meta
  <2>1. i[r] \in Infos
    BY <1>1
  <2> QED
    BY <1>2, <2>1 DEF Infos
<1> QED
  BY <1>3, <1>4, InfosKept

LEMMA RoundResetGood ==
    ASSUME NEW i, InfosGood(i)
    PROVE  InfosGood(RoundReset(i)) /\ (FlagsGood(i) => FlagsGood(RoundReset(i)))
<1>1. i \in [Receivers -> Infos]
  BY DEF InfosGood
<1>2. RoundReset(i) \in [Receivers -> Infos]
  BY <1>1 DEF RoundReset, Infos
<1>3. \A r \in Receivers : /\ RoundReset(i)[r].state = i[r].state
                           /\ RoundReset(i)[r].id = i[r].id
                           /\ RoundReset(i)[r].completed = i[r].completed
                           /\ RoundReset(i)[r].meta = i[r].meta
  BY <1>1 DEF RoundReset, Infos
<1> QED
  BY <1>2, <1>3, InfosKept

LEMMA IsolatedGood ==
    ASSUME InfosGood(info)
    PROVE  InfosGood(Isolated) /\ (FlagsGood(info) => FlagsGood(Isolated))
<1>1. info \in [Receivers -> Infos]
  BY DEF InfosGood
<1>2. ASSUME NEW r \in Receivers
      PROVE  /\ Isolated[r] \in Infos
             /\ Isolated[r].state = info[r].state /\ Isolated[r].id = info[r].id
             /\ Isolated[r].completed = info[r].completed /\ Isolated[r].meta = info[r].meta
  <2>1. Isolated[r] = [info[r] EXCEPT !.isolated = @ \/ Slow(r)]
    BY DEF Isolated
  <2>2. (info[r].isolated \/ Slow(r)) \in BOOLEAN
    OBVIOUS
  <2>3. info[r] \in Infos
    BY <1>1
  <2> QED
    BY <2>1, <2>2, <2>3 DEF Infos
<1>3. Isolated \in [Receivers -> Infos]
  BY <1>2 DEF Isolated
<1> QED
  BY <1>2, <1>3, InfosKept

\* The messages the proxy sends to all.
LEMMA SessionFrames ==
    ASSUME TypeOK
    PROVE  /\ \A i : FailedFrames(i) \in [Receivers -> Seq(RcvFrames)]
           /\ \A r \in Receivers : Ack(r) \in [Receivers -> Seq(RcvFrames)]
           /\ \A to : \A k \in Rounds : EndRound(to, k) \in [Receivers -> Seq(RcvFrames)]
<1>1. /\ Tid \in Ids /\ <<>> \in Seq(RcvFrames)
      /\ <<Frame("TRANSFER_FAILED", Tid)>> \in Seq(RcvFrames)
      /\ <<Frame("COMPLETE_ACK", Tid)>> \in Seq(RcvFrames)
  BY TidType, FrameType, EmptySeq
<1>2. \A i : FailedFrames(i) \in [Receivers -> Seq(RcvFrames)]
  BY <1>1 DEF FailedFrames
<1>3. \A r \in Receivers : Ack(r) \in [Receivers -> Seq(RcvFrames)]
  BY <1>1, NoFramesType DEF Ack
<1>4. ASSUME NEW to, NEW k \in Rounds PROVE EndRound(to, k) \in [Receivers -> Seq(RcvFrames)]
  <2>1. SectionEnd(Tid, section, k) \in RcvFrames
    BY <1>1 DEF SectionEnd, RcvFrames, TypeOK
  <2>2. <<SectionEnd(Tid, section, k)>> \in Seq(RcvFrames)
    BY <2>1
  <2> QED
    BY <1>1, <2>2 DEF EndRound
<1> QED
  BY <1>2, <1>3, <1>4

\* A step of the proxy that leaves the receivers alone keeps what is honest.
LEMMA HonestStep ==
    ASSUME Honest, UNCHANGED <<cur, phase, stored>>, InfosGood(info'), ConnsGood(conn'),
           pc' # "begin" \/ cached' => \A r \in Receivers : FlagsOf(info'[r], file', stored[r])
    PROVE  Honest'
  BY DEF Honest, AwaitingIsStored, InfosGood, ConnsGood, FlagsGood

LEMMA KeepsHonest ==
    ASSUME Honest, UNCHANGED <<cur, phase, stored, file>>,
           pc # "begin" \/ UNCHANGED <<pc, cached>>,
           InfosGood(info'), FlagsGood(info) => FlagsGood(info'), ConnsGood(conn')
    PROVE  Honest'
<1>1. pc' # "begin" \/ cached' => \A r \in Receivers : FlagsOf(info'[r], file', stored[r])
  BY DEF Honest, FlagsGood
<1> QED
  BY <1>1, HonestStep

\* A step that leaves the records and the connections alone.
LEMMA QuietStep ==
    ASSUME Honest, UNCHANGED <<info, conn, cur, phase, stored, file>>, pc # "begin"
    PROVE  Honest'
<1>1. InfosGood(info') /\ ConnsGood(conn') /\ (FlagsGood(info) => FlagsGood(info'))
  BY DEF Honest
<1> QED
  BY <1>1, KeepsHonest

\* One connection changes.
LEMMA OneConnGood ==
    ASSUME ConnsGood(conn), NEW r \in Receivers, NEW c \in HonestConns(stored[r])
    PROVE  ConnsGood([conn EXCEPT ![r] = c])
<1>1. c \in Conns
  BY HonestIsConn
<1>2. [conn EXCEPT ![r] = c] \in [Receivers -> Conns]
  BY <1>1 DEF ConnsGood
<1>3. ASSUME NEW q \in Receivers PROVE [conn EXCEPT ![r] = c][q] \in HonestConns(stored[q])
  <2>1. conn \in [Receivers -> Conns] /\ conn[q] \in HonestConns(stored[q])
    BY DEF ConnsGood
  <2> QED
    BY <2>1
<1> QED
  BY <1>2, <1>3 DEF ConnsGood

LEMMA OrdersType ==
    ASSUME NEW S \in SUBSET Receivers PROVE Orders(S) \subseteq Seq(Receivers)
<1>1. IsFiniteSet(S)
  BY SessionAssumption, FS_Subset
<1>2. Cardinality(S) \in Nat
  BY <1>1, FS_CardinalityType
<1> QED
  BY <1>2 DEF Orders

------------------------------------------------------------------------------
(* The steps of the proxy that leave the records and the connections alone *)

LEMMA QuietSteps ==
    ASSUME Inv,
           WaitThrows \/ AllReady \/ Rethrow \/ Retry \/ CentralConnects \/ SessionEndLost
    PROVE  Inv'
<1>1. Honest'
  BY QuietStep DEF Inv, WaitThrows, AllReady, Rethrow, BarrierPassed, Retry, CentralConnects,
                   SessionEndLost, attemptVars, rcvVars
<1>2. CASE WaitThrows
  <2>1. faults' \in 0 .. MaxFaults
    BY <1>2, SessionAssumption DEF Inv, TypeOK, WaitThrows, WaitExpires, DeadlinePasses
  <2> QED
    BY <1>1, <1>2, <2>1 DEF Inv, TypeOK, WaitThrows, Throws, attemptVars, rcvVars
<1>3. CASE AllReady \/ Rethrow
  BY <1>1, <1>3 DEF Inv, TypeOK, AllReady, Rethrow, attemptVars, rcvVars
<1>4. CASE Retry
  <2>1. attempt' \in 0 .. MaxRetries
    BY <1>4, SessionAssumption DEF Inv, TypeOK, Retry, RetriesLeft
  <2>2. cached' \in BOOLEAN
    BY <1>4 DEF Retry
  <2> QED
    BY <1>1, <1>4, <2>1, <2>2 DEF Inv, TypeOK, Retry, rcvVars
<1>5. CASE CentralConnects
  <2>1. centrals' \in 0 .. MaxCentrals /\ attempt' \in 0 .. MaxRetries
    BY <1>5, SessionAssumption DEF Inv, TypeOK, CentralConnects
  <2> QED
    BY <1>1, <1>5, <2>1 DEF Inv, TypeOK, CentralConnects, rcvVars
<1>6. CASE SessionEndLost
  <2>1. centrals' \in 0 .. MaxCentrals
    BY <1>6, SessionAssumption DEF SessionEndLost
  <2> QED
    BY <1>1, <1>6, <2>1 DEF Inv, TypeOK, SessionEndLost, attemptVars, rcvVars
<1> QED
  BY <1>2, <1>3, <1>4, <1>5, <1>6

------------------------------------------------------------------------------
(* Registration, and what is read *)

LEMMA RegisterInv == ASSUME Inv, NEW r \in Receivers, Register(r) PROVE Inv'
<1>1. /\ InfosGood(info') /\ ConnsGood(conn') /\ (FlagsGood(info) => FlagsGood(info'))
      /\ link' \in [Receivers -> {"up", "down", "pending", "gone"}]
  BY AfterGood DEF Inv, Register
<1>2. Honest'
  BY <1>1, KeepsHonest DEF Inv, Register, attemptVars
<1>3. TypeOK'
  <2>1. pc' \in {"register", "away", "begin"}
    BY DEF Register
  <2>2. UNCHANGED <<attemptVars, batch, task, cur, phase, drain, stored, faults, centrals>>
    BY DEF Register
  <2> QED
    BY <1>1, <2>1, <2>2 DEF Inv, TypeOK, attemptVars, InfosGood, ConnsGood
<1> QED
  BY <1>2, <1>3 DEF Inv

LEMMA PollInv == ASSUME Inv, Poll PROVE Inv'
<1>1. /\ InfosGood(info') /\ ConnsGood(conn') /\ (FlagsGood(info) => FlagsGood(info'))
      /\ link' \in [Receivers -> {"up", "down", "pending", "gone"}]
  <2>1. CASE UNCHANGED <<info, conn, link>>
    BY <2>1 DEF Inv, Honest, TypeOK
  <2>2. CASE \E r \in Pending : /\ info' = InfoAfter({r}) /\ conn' = ConnAfter({r})
                                /\ link' = LinkAfter({r})
    <3>1. PICK r \in Receivers : /\ info' = InfoAfter({r}) /\ conn' = ConnAfter({r})
                                 /\ link' = LinkAfter({r})
      BY <2>2 DEF Pending
    <3> QED
      BY <3>1, AfterGood DEF Inv
  <2> QED
    BY <2>1, <2>2 DEF Poll
<1>2. Honest'
  BY <1>1, KeepsHonest DEF Inv, Poll, Waiting, attemptVars
<1>3. batch' \in Seq(Receivers)
  BY OrdersType DEF Poll
<1>4. UNCHANGED <<attemptVars, pc, task, cur, phase, drain, stored, faults, centrals>>
  BY DEF Poll
<1>5. TypeOK'
  BY <1>1, <1>3, <1>4 DEF Inv, TypeOK, attemptVars, InfosGood, ConnsGood
<1> QED
  BY <1>2, <1>5 DEF Inv

\* The frame at the front of the batch.
LEMMA FrontGood ==
    ASSUME Inv, batch # <<>>
    PROVE  /\ Front \in Receivers /\ Tail(batch) \in Seq(Receivers)
           /\ HasFrame => /\ Got \in HonestFrames(stored[Front]) /\ ConnsGood(Popped)
<1>1. Front \in Receivers /\ Tail(batch) \in Seq(Receivers)
  BY HeadTailProperties DEF Inv, TypeOK, Front
<1>2. ConnsGood(conn) /\ conn[Front] \in HonestConns(stored[Front])
  BY <1>1 DEF Inv, Honest, ConnsGood
<1>3. ASSUME HasFrame PROVE Got \in HonestFrames(stored[Front]) /\ ConnsGood(Popped)
  <2>1. /\ [conn[Front] EXCEPT !.toProxy = Tail(@)] \in HonestConns(stored[Front])
        /\ Got \in HonestFrames(stored[Front])
    BY <1>2, <1>3, PoppedGood DEF HasFrame, Got
  <2>2. Popped = [conn EXCEPT ![Front] = [conn[Front] EXCEPT !.toProxy = Tail(@)]]
    BY DEF Popped
  <2> QED
    BY <1>1, <1>2, <2>1, <2>2, OneConnGood
<1> QED
  BY <1>1, <1>3

LEMMA ReadNothingInv == ASSUME Inv, ReadNothing PROVE Inv'
<1>1. Front \in Receivers /\ Tail(batch) \in Seq(Receivers) /\ ConnsGood(conn)
  BY FrontGood DEF ReadNothing, Inv, Honest
<1>2. Closed(conn[Front]) \in HonestConns(stored[Front])
  BY <1>1, ClosedGood DEF ConnsGood
<1>3. ConnsGood([conn EXCEPT ![Front] = Closed(@)])
  BY <1>1, <1>2, OneConnGood
<1>4. ConnsGood(conn')
  BY <1>1, <1>3 DEF ReadNothing
<1>5. InfosGood(info') /\ (FlagsGood(info) => FlagsGood(info'))
  BY DEF ReadNothing, Inv, Honest
<1>6. Honest'
  BY <1>4, <1>5, KeepsHonest DEF ReadNothing, Inv, attemptVars, rcvVars
<1>7. TypeOK'
  BY <1>1, <1>4 DEF ReadNothing, Inv, TypeOK, attemptVars, rcvVars, ConnsGood
<1> QED
  BY <1>6, <1>7 DEF Inv

LEMMA ReadMetaReadyInv == ASSUME Inv, ReadMetaReady PROVE Inv'
<1>1. /\ Front \in Receivers /\ Tail(batch) \in Seq(Receivers)
      /\ Got \in HonestFrames(stored[Front]) /\ ConnsGood(Popped)
  BY FrontGood DEF ReadMetaReady, HasFrame
<1>2. InfosGood(info) /\ FlagsGood(info) /\ info \in [Receivers -> Infos] /\ Tid \in Ids
  BY TidType DEF Inv, Honest, ReadMetaReady, InfosGood
<1>3. /\ UNCHANGED <<attemptVars, task, rcvVars, faults, centrals>>
      /\ pc = "meta" /\ (UNCHANGED pc \/ Throws) /\ batch' \in {Tail(batch), <<>>}
  BY DEF ReadMetaReady
<1>4. InfosGood(info') /\ FlagsGood(info') /\ ConnsGood(conn')
  <2>1. CASE info' = info /\ conn' = Popped
    BY <1>1, <1>2, <2>1
  <2>2. CASE /\ conn' = Popped
             /\ info' = [info EXCEPT ![Front].metaReady = TRUE,
                                     ![Front].state = "Receiving", ![Front].id = Tid]
    <3>1. info'[Front] = [info[Front] EXCEPT !.metaReady = TRUE, !.state = "Receiving",
                                             !.id = Tid]
      BY <1>1, <1>2, <2>2
    <3>2. \A q \in Receivers : q # Front => info'[q] = info[q]
      BY <1>1, <1>2, <2>2
    <3>a. info[Front] \in Infos
      BY <1>1, <1>2
    <3>b. /\ info'[Front] \in Infos /\ info'[Front].state = "Receiving"
          /\ info'[Front].completed = info[Front].completed
          /\ info'[Front].meta = info[Front].meta
      BY <1>2, <3>1, <3>a DEF Infos
    <3>3. /\ info'[Front] \in HonestInfos(stored[Front])
          /\ info'[Front].completed = info[Front].completed
          /\ info'[Front].meta = info[Front].meta
      BY <3>b DEF HonestInfos
    <3>4. \A q \in Receivers : info'[q] \in HonestInfos(stored[q])
      BY <1>2, <3>2, <3>3 DEF InfosGood
    <3>5. info' \in [Receivers -> Infos]
      BY <1>1, <1>2, <2>2, <3>4 DEF HonestInfos
    <3>6. \A q \in Receivers : FlagsOf(info'[q], file, stored[q])
      BY <1>2, <3>2, <3>3 DEF FlagsGood, FlagsOf
    <3> QED
      BY <1>1, <2>2, <3>4, <3>5, <3>6 DEF InfosGood, FlagsGood
  <2>3. CASE /\ Got.type = "RECEIVER_COMPLETE" /\ Got.id = Tid
             /\ info' = [info EXCEPT ![Front] = Confirmed(@)]
             /\ SendOn(Popped, link, Ack(Front))
    <3>1. file \in stored[Front]
      BY <1>1, <2>3, TidType DEF Inv, HonestFrames
    <3>2. InfosGood(info') /\ FlagsGood(info')
      BY <1>1, <1>2, <2>3, <3>1, ConfirmedGood DEF Inv
    <3>3. ConnsGood(conn')
      BY <1>1, <2>3, SessionFrames, SendOnGood DEF Inv, ConnsGood
    <3> QED
      BY <3>2, <3>3
  <2> QED
    BY <2>1, <2>2, <2>3 DEF ReadMetaReady
<1>5. Honest'
  BY <1>3, <1>4, KeepsHonest DEF Inv, attemptVars, rcvVars
<1>6. TypeOK'
  <2>1. pc' \in {"meta", "exited", "away"}
    BY <1>3 DEF Throws
  <2>2. batch' \in Seq(Receivers)
    BY <1>1, <1>3, EmptySeq
  <2> QED
    BY <1>3, <1>4, <2>1, <2>2 DEF Inv, TypeOK, attemptVars, rcvVars, InfosGood, ConnsGood
<1> QED
  BY <1>5, <1>6 DEF Inv

LEMMA ReadReportInv == ASSUME Inv, ReadReport PROVE Inv'
<1>1. /\ Front \in Receivers /\ Tail(batch) \in Seq(Receivers)
      /\ Got \in HonestFrames(stored[Front]) /\ ConnsGood(Popped)
  BY FrontGood DEF ReadReport, HasFrame
<1>2. InfosGood(info) /\ FlagsGood(info) /\ info \in [Receivers -> Infos]
  BY DEF Inv, Honest, ReadReport, InfosGood
<1>3. /\ UNCHANGED <<attemptVars, pc, task, rcvVars, faults, centrals>>
      /\ pc = "collect" /\ batch' = Tail(batch)
  BY DEF ReadReport
<1>4. InfosGood(info') /\ FlagsGood(info') /\ ConnsGood(conn')
  <2>1. CASE info' = info /\ conn' = Popped
    BY <1>1, <1>2, <2>1
  <2>2. CASE /\ Got.type = "SECTION_STATUS" /\ conn' = Popped
             /\ info' = [info EXCEPT ![Front].status = Got.code]
    <3>1. Got.code \in {"Missing", "Complete", "Failed"}
      BY <1>1, <2>2 DEF HonestFrames, ProxyFrames
    <3>2. info'[Front] = [info[Front] EXCEPT !.status = Got.code]
      BY <1>1, <1>2, <2>2
    <3>3. info[Front] \in Infos
      BY <1>1, <1>2
    <3>4. /\ info'[Front] \in Infos
          /\ info'[Front].state = info[Front].state /\ info'[Front].id = info[Front].id
          /\ info'[Front].completed = info[Front].completed
          /\ info'[Front].meta = info[Front].meta
      BY <3>1, <3>2, <3>3 DEF Infos
    <3>5. \A q \in Receivers : q # Front => info'[q] = info[q]
      BY <1>1, <1>2, <2>2
    <3>6. info' \in [Receivers -> Infos]
      BY <1>2, <2>2, <3>4, <3>5
    <3>7. \A q \in Receivers :
             /\ info'[q].state = info[q].state /\ info'[q].id = info[q].id
             /\ info'[q].completed = info[q].completed /\ info'[q].meta = info[q].meta
      BY <3>4, <3>5
    <3> QED
      BY <1>1, <1>2, <2>2, <3>6, <3>7, InfosKept
  <2>3. CASE /\ Got.type = "RECEIVER_COMPLETE" /\ Got.id = Tid
             /\ info' = [info EXCEPT ![Front] = Confirmed(@)]
             /\ SendOn(Popped, link, Ack(Front))
    <3>1. file \in stored[Front]
      BY <1>1, <2>3, TidType DEF Inv, HonestFrames
    <3>2. InfosGood(info') /\ FlagsGood(info')
      BY <1>1, <1>2, <2>3, <3>1, ConfirmedGood DEF Inv
    <3>3. ConnsGood(conn')
      BY <1>1, <2>3, SessionFrames, SendOnGood DEF Inv, ConnsGood
    <3> QED
      BY <3>2, <3>3
  <2> QED
    BY <2>1, <2>2, <2>3 DEF ReadReport
<1>5. Honest'
  BY <1>3, <1>4, KeepsHonest DEF Inv, attemptVars, rcvVars
<1>6. TypeOK'
  BY <1>1, <1>3, <1>4 DEF Inv, TypeOK, attemptVars, rcvVars, InfosGood, ConnsGood
<1> QED
  BY <1>5, <1>6 DEF Inv

LEMMA ReadReadyInv == ASSUME Inv, ReadReady PROVE Inv'
<1>1. /\ Front \in Receivers /\ Tail(batch) \in Seq(Receivers) /\ ConnsGood(Popped)
  BY FrontGood DEF ReadReady, HasFrame
<1>2. InfosGood(info) /\ FlagsGood(info) /\ info \in [Receivers -> Infos] /\ NoId \in Ids
  BY DEF Inv, Honest, ReadReady, InfosGood, Ids
<1>3. InfosGood(info') /\ FlagsGood(info')
  <2>1. CASE info' = info
    BY <1>2, <2>1
  <2>2. CASE info' = [info EXCEPT ![Front].ready = TRUE, ![Front].state = "Idle",
                                  ![Front].id = NoId, ![Front].meta = NoId]
    <3>1. info'[Front] = [info[Front] EXCEPT !.ready = TRUE, !.state = "Idle",
                                             !.id = NoId, !.meta = NoId]
      BY <1>1, <1>2, <2>2
    <3>a. info[Front] \in Infos
      BY <1>1, <1>2
    <3>b. /\ info'[Front] \in Infos /\ info'[Front].state = "Idle"
          /\ info'[Front].completed = info[Front].completed /\ info'[Front].meta = NoId
      BY <1>2, <3>1, <3>a DEF Infos
    <3>2. /\ info'[Front] \in HonestInfos(stored[Front])
          /\ info'[Front].completed = info[Front].completed /\ info'[Front].meta = NoId
      BY <3>b DEF HonestInfos
    <3>3. \A q \in Receivers : q # Front => info'[q] = info[q]
      BY <1>1, <1>2, <2>2
    <3>4. \A q \in Receivers : info'[q] \in HonestInfos(stored[q])
      BY <1>2, <3>2, <3>3 DEF InfosGood
    <3>5. info' \in [Receivers -> Infos]
      BY <1>1, <1>2, <2>2, <3>4 DEF HonestInfos
    <3>6. \A q \in Receivers : FlagsOf(info'[q], file, stored[q])
      BY <1>2, <3>2, <3>3 DEF FlagsGood, FlagsOf
    <3> QED
      BY <3>4, <3>5, <3>6 DEF InfosGood, FlagsGood
  <2> QED
    BY <2>1, <2>2 DEF ReadReady
<1>4. /\ UNCHANGED <<attemptVars, pc, task, rcvVars, faults, centrals>>
      /\ pc = "barrier" /\ batch' = Tail(batch) /\ conn' = Popped
  BY DEF ReadReady
<1>5. Honest'
  BY <1>1, <1>3, <1>4, KeepsHonest DEF Inv, attemptVars, rcvVars
<1>6. TypeOK'
  BY <1>1, <1>3, <1>4 DEF Inv, TypeOK, attemptVars, rcvVars, InfosGood, ConnsGood
<1> QED
  BY <1>5, <1>6 DEF Inv

------------------------------------------------------------------------------
(* An attempt *)

LEMMA BegunGood ==
    ASSUME TypeOK, NEW S, NEW i \in HonestInfos(S)
    PROVE  Begun(i) \in HonestInfos(S) /\ FlagsOf(Begun(i), file, S)
<1> DEFINE done == i.state = "Completed" /\ i.id = Tid
<1>1. Tid \in Ids /\ Tid[1] = file /\ i \in Infos /\ (i.state = "Completed" => i.id[1] \in S)
  BY TidType DEF HonestInfos
<1>2. done \in BOOLEAN /\ (done => file \in S)
  BY <1>1
<1> HIDE DEF done
<1>3. Begun(i) =
        [metaReady |-> done, completed |-> done, status |-> "NO_REPORT",
         ready |-> FALSE, isolated |-> FALSE, abandoned |-> FALSE,
         state |-> IF done THEN "Completed" ELSE "Receiving", id |-> Tid, meta |-> Tid]
  BY DEF Begun, done
<1>4. Begun(i) \in Infos
  BY <1>1, <1>2, <1>3 DEF Infos
<1>5. /\ Begun(i).id = Tid /\ Begun(i).meta = Tid /\ Begun(i).completed = done
      /\ (Begun(i).state = "Completed" => done)
  BY <1>3
<1> QED
  BY <1>1, <1>2, <1>4, <1>5 DEF HonestInfos, FlagsOf

LEMMA BeginFramesType ==
    ASSUME TypeOK, NEW i \in Infos PROVE BeginFrames(i) \in Seq(RcvFrames)
<1>1. /\ Tid \in Ids /\ i.id \in Ids
  BY TidType DEF Infos
<1>2. /\ <<Frame("COMPLETE_ACK", Tid)>> \in Seq(RcvFrames)
      /\ <<Frame("FILE_META", Tid)>> \in Seq(RcvFrames) /\ <<>> \in Seq(RcvFrames)
      /\ Stale(i.state, i.id) \in Seq(RcvFrames)
  BY <1>1, FrameType, EmptySeq, StaleType
<1>3. (IF i.id = Tid THEN <<>> ELSE Stale(i.state, i.id)) \o <<Frame("FILE_META", Tid)>>
        \in Seq(RcvFrames)
  BY <1>2, ConcatProperties
<1> QED
  BY <1>2, <1>3 DEF BeginFrames

LEMMA BeginInv == ASSUME Inv, Begin PROVE Inv'
<1> DEFINE known == InfoAfter(Pending)
<1>1. /\ InfosGood(known) /\ ConnsGood(ConnAfter(Pending))
      /\ LinkAfter(Pending) \in [Receivers -> {"up", "down", "pending", "gone"}]
  BY AfterGood DEF Inv, Pending
<1> HIDE DEF known
<1>2. /\ info' = [r \in Receivers |-> Begun(known[r])] /\ link' = LinkAfter(Pending)
      /\ SendOn(ConnAfter(Pending), link', [r \in Receivers |-> BeginFrames(known[r])])
      /\ pc' = "meta" /\ section' = 0 /\ round' = 0 /\ result' = "Success"
      /\ UNCHANGED <<mode, file, attempt, after, cached, batch, task, cur, phase, drain,
                     stored, faults, centrals>>
  BY DEF Begin, known
<1>3. \A r \in Receivers : /\ Begun(known[r]) \in HonestInfos(stored[r])
                           /\ FlagsOf(Begun(known[r]), file, stored[r])
                           /\ BeginFrames(known[r]) \in Seq(RcvFrames)
  BY <1>1, BegunGood, BeginFramesType DEF Inv, InfosGood
<1>4. InfosGood(info') /\ FlagsGood(info')
  BY <1>2, <1>3 DEF InfosGood, FlagsGood, HonestInfos
<1>5. ConnsGood(conn')
  <2>1. [r \in Receivers |-> BeginFrames(known[r])] \in [Receivers -> Seq(RcvFrames)]
    BY <1>3
  <2> QED
    BY <1>1, <1>2, <2>1, SendOnGood DEF ConnsGood
<1>6. Honest'
  <2>1. \A r \in Receivers : FlagsOf(info'[r], file', stored[r])
    BY <1>2, <1>4 DEF FlagsGood
  <2> QED
    BY <1>2, <1>4, <1>5, <2>1, HonestStep DEF Inv
<1>7. TypeOK'
  BY <1>1, <1>2, <1>4, <1>5, SessionAssumption DEF Inv, TypeOK, Rounds, InfosGood, ConnsGood
<1> QED
  BY <1>6, <1>7 DEF Inv

\* The state before a collection ends, and the bound on the faults after it.
LEMMA CollectionEndsGood ==
    ASSUME Inv, CollectionEnds
    PROVE  /\ pc = "collect" /\ faults' \in 0 .. MaxFaults
           /\ InfosGood(info) /\ FlagsGood(info) /\ ConnsGood(conn)
<1>1. pc = "collect" /\ (UNCHANGED faults \/ WaitExpires)
  BY DEF CollectionEnds
<1>2. faults \in 0 .. MaxFaults /\ MaxFaults \in Nat
  BY SessionAssumption DEF Inv, TypeOK
<1>3. UNCHANGED faults \/ (faults > 0 /\ faults' = faults - 1)
  BY <1>1 DEF WaitExpires, DeadlinePasses
<1>4. faults' \in 0 .. MaxFaults
  BY <1>2, <1>3
<1> QED
  BY <1>1, <1>4 DEF Inv, Honest

LEMMA SendSectionInv == ASSUME Inv, SendSection PROVE Inv'
<1>1. /\ pc = "section" /\ pc' = "collect" /\ round' = 0 /\ info' = RoundReset(info)
      /\ UNCHANGED <<mode, file, attempt, section, result, after, cached, batch, task, rcvVars,
                     faults, centrals>>
      /\ SendOn(conn, link, EndRound([r \in Receivers |-> InGroup(r)], 0))
  BY DEF SendSection, Send
<1>2. InfosGood(info') /\ (FlagsGood(info) => FlagsGood(info'))
  BY <1>1, RoundResetGood DEF Inv, Honest
<1>3. 0 \in Rounds
  BY SessionAssumption DEF Rounds
<1>4. ConnsGood(conn')
  BY <1>1, <1>3, SessionFrames, SendOnGood DEF Inv, Honest, ConnsGood
<1>5. Honest'
  BY <1>1, <1>2, <1>4, KeepsHonest DEF Inv, rcvVars
<1>6. TypeOK'
  BY <1>1, <1>2, <1>3, <1>4 DEF Inv, TypeOK, rcvVars, InfosGood, ConnsGood
<1> QED
  BY <1>5, <1>6 DEF Inv

\* The proxy starts the barrier of a transfer that failed.
LEMMA FailedBarrier ==
    ASSUME TypeOK, NEW i, InfosGood(i), NEW then, EnterBarrier(i, then),
           ConnsGood(conn), Send(FailedFrames(i))
    PROVE  /\ InfosGood(info') /\ (FlagsGood(i) => FlagsGood(info')) /\ ConnsGood(conn')
           /\ pc' = "barrier" /\ after' = then
<1>1. InfosGood(info') /\ (FlagsGood(i) => FlagsGood(info'))
  BY EnterBarrierGood
<1>2. FailedFrames(i) \in [Receivers -> Seq(RcvFrames)]
  BY SessionFrames
<1>3. ConnsGood(conn')
  BY <1>2, SendOnGood DEF Send, ConnsGood
<1> QED
  BY <1>1, <1>3 DEF EnterBarrier

LEMMA CollectMismatchInv == ASSUME Inv, CollectMismatch PROVE Inv'
<1>1. /\ pc = "collect" /\ faults' \in 0 .. MaxFaults
      /\ InfosGood(info) /\ FlagsGood(info) /\ ConnsGood(conn)
  BY CollectionEndsGood DEF CollectMismatch
<1>2. /\ result' = "Sha256Mismatch"
      /\ UNCHANGED <<mode, file, attempt, round, cached, batch, task, rcvVars, centrals>>
  BY DEF CollectMismatch
<1>3. CASE pc' = "section" /\ section' = section + 1 /\ UNCHANGED <<after, info, conn>>
  <2>1. Honest'
    BY <1>2, <1>1, <1>3, QuietStep DEF Inv, rcvVars
  <2> QED
    BY <1>1, <1>2, <1>3, <2>1 DEF Inv, TypeOK, rcvVars
<1>4. CASE EnterBarrier(info, "verdict") /\ Send(FailedFrames(info)) /\ UNCHANGED section
  <2>1. /\ InfosGood(info') /\ FlagsGood(info') /\ ConnsGood(conn')
        /\ pc' = "barrier" /\ after' = "verdict"
    BY <1>1, <1>4, FailedBarrier DEF Inv
  <2>2. Honest'
    BY <1>1, <1>2, <2>1, KeepsHonest DEF Inv, rcvVars
  <2>3. TypeOK'
    BY <1>1, <1>2, <1>4, <2>1 DEF Inv, TypeOK, rcvVars, InfosGood, ConnsGood
  <2> QED
    BY <2>2, <2>3 DEF Inv
<1> QED
  BY <1>3, <1>4 DEF CollectMismatch

LEMMA CloseSectionInv == ASSUME Inv, CloseSection PROVE Inv'
<1>1. /\ pc = "collect" /\ faults' \in 0 .. MaxFaults
      /\ InfosGood(info) /\ FlagsGood(info) /\ ConnsGood(conn)
  BY CollectionEndsGood DEF CloseSection
<1>2. /\ info' = Isolated /\ result' = "Success" /\ pc' = "section" /\ section' = section + 1
      /\ UNCHANGED <<mode, file, attempt, round, after, cached, batch, task, conn, rcvVars,
                     centrals>>
  BY DEF CloseSection
<1>3. InfosGood(info') /\ FlagsGood(info') /\ ConnsGood(conn')
  BY <1>1, <1>2, IsolatedGood
<1>4. Honest'
  BY <1>1, <1>2, <1>3, KeepsHonest DEF Inv, rcvVars
<1>5. TypeOK'
  BY <1>1, <1>2, <1>3 DEF Inv, TypeOK, rcvVars, InfosGood, ConnsGood
<1> QED
  BY <1>4, <1>5 DEF Inv

LEMMA RepairRoundInv == ASSUME Inv, RepairRound PROVE Inv'
<1>1. /\ pc = "collect" /\ faults' \in 0 .. MaxFaults
      /\ InfosGood(info) /\ FlagsGood(info) /\ ConnsGood(conn)
  BY CollectionEndsGood DEF RepairRound
<1>2. /\ info' = RoundReset(Isolated) /\ round' = round + 1 /\ round < MaxRepairRounds
      /\ SendOn(conn, link, EndRound([r \in Receivers |-> InGroup(r) /\ ~Slow(r)], round + 1))
      /\ UNCHANGED <<mode, pc, file, attempt, section, result, after, cached, batch, task,
                     rcvVars, centrals>>
  BY DEF RepairRound, RoundsLeft, Send
<1>3. round + 1 \in Rounds
  BY <1>2, SessionAssumption DEF Inv, TypeOK, Rounds
<1>4. InfosGood(info') /\ FlagsGood(info')
  BY <1>1, <1>2, IsolatedGood, RoundResetGood
<1>5. ConnsGood(conn')
  BY <1>1, <1>2, <1>3, SessionFrames, SendOnGood DEF Inv, ConnsGood
<1>6. Honest'
  BY <1>1, <1>2, <1>4, <1>5, KeepsHonest DEF Inv, rcvVars
<1>7. TypeOK'
  BY <1>1, <1>2, <1>3, <1>4, <1>5 DEF Inv, TypeOK, rcvVars, InfosGood, ConnsGood
<1> QED
  BY <1>6, <1>7 DEF Inv

LEMMA TasksType ==
    \A i : BackfillTasks(i) \in [Receivers -> {"none", "todo", "waiting", "done"}]
  BY DEF BackfillTasks

LEMMA RoundsExhaustedInv == ASSUME Inv, RoundsExhausted PROVE Inv'
<1>1. /\ pc = "collect" /\ faults' \in 0 .. MaxFaults
      /\ InfosGood(info) /\ FlagsGood(info) /\ ConnsGood(conn)
  BY CollectionEndsGood DEF RoundsExhausted
<1>2. /\ result' = "Failed"
      /\ UNCHANGED <<mode, file, attempt, section, round, cached, batch, rcvVars, centrals>>
  BY DEF RoundsExhausted
<1>3. InfosGood(Isolated) /\ FlagsGood(Isolated)
  BY <1>1, IsolatedGood
<1>4. /\ InfosGood(info') /\ FlagsGood(info') /\ ConnsGood(conn')
      /\ pc' \in {"barrier", "backfill"} /\ after' \in {"rethrow", after}
      /\ task' \in [Receivers -> {"none", "todo", "waiting", "done"}]
  <2>1. CASE EnterBarrier(Isolated, "rethrow") /\ Send(FailedFrames(Isolated)) /\ UNCHANGED task
    BY <1>1, <1>3, <2>1, FailedBarrier DEF Inv, TypeOK
  <2>2. CASE /\ pc' = "backfill" /\ task' = BackfillTasks(Isolated) /\ info' = Isolated
             /\ UNCHANGED <<conn, after>>
    BY <1>1, <1>3, <2>2, TasksType
  <2> QED
    BY <2>1, <2>2 DEF RoundsExhausted
<1>5. Honest'
  BY <1>1, <1>2, <1>4, KeepsHonest DEF Inv, rcvVars
<1>6. TypeOK'
  BY <1>1, <1>2, <1>4 DEF Inv, TypeOK, rcvVars, InfosGood, ConnsGood
<1> QED
  BY <1>5, <1>6 DEF Inv

LEMMA SectionsEndInv == ASSUME Inv, SectionsEnd PROVE Inv'
<1>1. /\ pc = "section" /\ InfosGood(info) /\ FlagsGood(info) /\ ConnsGood(conn)
      /\ UNCHANGED <<mode, file, attempt, section, round, result, batch, rcvVars, faults,
                     centrals>>
  BY DEF SectionsEnd, Inv, Honest
<1>2. /\ InfosGood(info') /\ FlagsGood(info') /\ ConnsGood(conn')
      /\ pc' \in {"barrier", "backfill"} /\ after' \in {"verdict", after}
      /\ task' \in [Receivers -> {"none", "todo", "waiting", "done"}] /\ cached' \in BOOLEAN
  <2>1. CASE EnterBarrier(info, "verdict") /\ Send(FailedFrames(info)) /\ UNCHANGED <<task, cached>>
    BY <1>1, <2>1, FailedBarrier DEF Inv, TypeOK
  <2>2. CASE /\ pc' = "backfill" /\ task' = BackfillTasks(info)
             /\ cached' = (cached \/ FromCentral) /\ UNCHANGED <<after, info, conn>>
    BY <1>1, <2>2, TasksType
  <2> QED
    BY <2>1, <2>2 DEF SectionsEnd
<1>3. Honest'
  BY <1>1, <1>2, KeepsHonest DEF Inv, rcvVars
<1>4. TypeOK'
  BY <1>1, <1>2 DEF Inv, TypeOK, rcvVars, InfosGood, ConnsGood
<1> QED
  BY <1>3, <1>4 DEF Inv

LEMMA CentralFailsInv == ASSUME Inv, CentralFails PROVE Inv'
<1>1. /\ pc = "section" /\ InfosGood(info) /\ FlagsGood(info) /\ ConnsGood(conn)
      /\ EnterBarrier(info, "rethrow") /\ Send(FailedFrames(info))
      /\ UNCHANGED <<mode, file, attempt, section, round, result, cached, batch, task, rcvVars,
                     faults, centrals>>
  BY DEF CentralFails, Inv, Honest
<1>2. /\ InfosGood(info') /\ FlagsGood(info') /\ ConnsGood(conn')
      /\ pc' = "barrier" /\ after' = "rethrow"
  BY <1>1, FailedBarrier DEF Inv
<1>3. Honest'
  BY <1>1, <1>2, KeepsHonest DEF Inv, rcvVars
<1>4. TypeOK'
  BY <1>1, <1>2 DEF Inv, TypeOK, rcvVars, InfosGood, ConnsGood
<1> QED
  BY <1>3, <1>4 DEF Inv

------------------------------------------------------------------------------
(* Backfill *)

LEMMA AbandonGood ==
    ASSUME TypeOK, Honest, NEW r \in Receivers, Abandon(r)
    PROVE  /\ InfosGood(info') /\ (FlagsGood(info) => FlagsGood(info')) /\ ConnsGood(conn')
           /\ task' \in [Receivers -> {"none", "todo", "waiting", "done"}]
<1>1. ConnsGood(conn) /\ conn[r] \in HonestConns(stored[r]) /\ InfosGood(info)
  BY DEF Honest, ConnsGood
<1>2. ConnsGood(conn')
  <2>1. Closed(conn[r]) \in HonestConns(stored[r])
    BY <1>1, ClosedGood
  <2>2. conn' = [conn EXCEPT ![r] = Closed(conn[r])]
    BY DEF Abandon
  <2> QED
    BY <1>1, <2>1, <2>2, OneConnGood
<1>3. ASSUME NEW q \in Receivers
      PROVE  /\ info'[q] \in Infos
             /\ info'[q].state = info[q].state /\ info'[q].id = info[q].id
             /\ info'[q].completed = info[q].completed /\ info'[q].meta = info[q].meta
  <2>1. info[q] \in Infos
    BY <1>1 DEF InfosGood
  <2>2. info'[q] \in {info[q], [info[q] EXCEPT !.abandoned = TRUE]}
    BY DEF Abandon, TypeOK
  <2> QED
    BY <2>1, <2>2 DEF Infos
<1>4. info' \in [Receivers -> Infos]
  BY <1>3 DEF Abandon, TypeOK
<1>5. InfosGood(info') /\ (FlagsGood(info) => FlagsGood(info'))
  BY <1>1, <1>3, <1>4, InfosKept
<1>6. task' \in [Receivers -> {"none", "todo", "waiting", "done"}]
  BY DEF Abandon, TypeOK
<1> QED
  BY <1>2, <1>5, <1>6

LEMMA BackfillSendInv == ASSUME Inv, NEW r \in Receivers, BackfillSend(r) PROVE Inv'
<1>1. /\ pc = "backfill" /\ InfosGood(info) /\ ConnsGood(conn)
      /\ conn[r] \in HonestConns(stored[r])
      /\ UNCHANGED <<attemptVars, pc, batch, rcvVars, faults, centrals>>
  BY DEF BackfillSend, Inv, Honest, ConnsGood
<1>2. /\ InfosGood(info') /\ (FlagsGood(info) => FlagsGood(info')) /\ ConnsGood(conn')
      /\ task' \in [Receivers -> {"none", "todo", "waiting", "done"}]
  <2>1. CASE Abandon(r)
    BY <2>1, AbandonGood DEF Inv
  <2>2. CASE /\ conn' = [conn EXCEPT ![r] =
                        Sent(@, link[r] = "up", <<Frame("BACKFILL", Tid)>>, FALSE)]
             /\ task' = [task EXCEPT ![r] = "waiting"] /\ UNCHANGED info
    <3>1. <<Frame("BACKFILL", Tid)>> \in Seq(RcvFrames)
      BY TidType, FrameType DEF Inv
    <3>2. Sent(conn[r], link[r] = "up", <<Frame("BACKFILL", Tid)>>, FALSE)
            \in HonestConns(stored[r])
      BY <1>1, <3>1, SentGood
    <3>3. ConnsGood(conn')
      BY <1>1, <2>2, <3>2, OneConnGood
    <3>4. task' \in [Receivers -> {"none", "todo", "waiting", "done"}]
      BY <2>2 DEF Inv, TypeOK
    <3> QED
      BY <1>1, <2>2, <3>3, <3>4
  <2> QED
    BY <2>1, <2>2 DEF BackfillSend
<1>3. Honest'
  BY <1>1, <1>2, KeepsHonest DEF Inv, attemptVars, rcvVars
<1>4. TypeOK'
  BY <1>1, <1>2 DEF Inv, TypeOK, attemptVars, rcvVars, InfosGood, ConnsGood
<1> QED
  BY <1>3, <1>4 DEF Inv

LEMMA BackfillReadInv == ASSUME Inv, NEW r \in Receivers, BackfillRead(r) PROVE Inv'
<1> DEFINE f == Head(conn[r].toProxy)
           popped == [conn EXCEPT ![r].toProxy = Tail(@)]
<1>1. /\ pc = "backfill" /\ InfosGood(info) /\ FlagsGood(info) /\ ConnsGood(conn)
      /\ conn[r] \in HonestConns(stored[r]) /\ conn[r].toProxy # <<>>
      /\ info \in [Receivers -> Infos]
      /\ UNCHANGED <<attemptVars, pc, batch, rcvVars, faults, centrals>>
  BY DEF BackfillRead, Inv, Honest, ConnsGood, InfosGood
<1>2. f \in HonestFrames(stored[r]) /\ ConnsGood(popped)
  <2>1. /\ f \in HonestFrames(stored[r])
        /\ [conn[r] EXCEPT !.toProxy = Tail(@)] \in HonestConns(stored[r])
    BY <1>1, PoppedGood
  <2>2. popped = [conn EXCEPT ![r] = [conn[r] EXCEPT !.toProxy = Tail(@)]]
    OBVIOUS
  <2> QED
    BY <1>1, <2>1, <2>2, OneConnGood
<1>3. \/ conn' = popped /\ UNCHANGED <<info, task>>
      \/ /\ info' = [info EXCEPT ![r].status = "Failed"]
         /\ conn' = popped /\ task' = [task EXCEPT ![r] = "done"]
      \/ /\ f.type = "RECEIVER_COMPLETE" /\ f.id = Tid
         /\ info' = [info EXCEPT ![r] = Confirmed(@)]
         /\ SendOn(popped, link, Ack(r)) /\ task' = [task EXCEPT ![r] = "done"]
  BY DEF BackfillRead
<1> HIDE DEF f, popped
<1>4. /\ InfosGood(info') /\ FlagsGood(info') /\ ConnsGood(conn')
      /\ task' \in [Receivers -> {"none", "todo", "waiting", "done"}]
  <2>0. [task EXCEPT ![r] = "done"] \in [Receivers -> {"none", "todo", "waiting", "done"}]
    BY DEF Inv, TypeOK
  <2>1. CASE conn' = popped /\ UNCHANGED <<info, task>>
    BY <1>1, <1>2, <2>1 DEF Inv, TypeOK
  <2>2. CASE /\ info' = [info EXCEPT ![r].status = "Failed"]
             /\ conn' = popped /\ task' = [task EXCEPT ![r] = "done"]
    <3>1. ASSUME NEW q \in Receivers
          PROVE  /\ info'[q] \in Infos
                 /\ info'[q].state = info[q].state /\ info'[q].id = info[q].id
                 /\ info'[q].completed = info[q].completed /\ info'[q].meta = info[q].meta
      <4>1. info[q] \in Infos
        BY <1>1
      <4>2. info'[q] \in {info[q], [info[q] EXCEPT !.status = "Failed"]}
        BY <1>1, <2>2
      <4> QED
        BY <4>1, <4>2 DEF Infos
    <3>2. info' \in [Receivers -> Infos]
      BY <1>1, <2>2, <3>1
    <3> QED
      BY <1>1, <1>2, <2>0, <2>2, <3>1, <3>2, InfosKept
  <2>3. CASE /\ f.type = "RECEIVER_COMPLETE" /\ f.id = Tid
             /\ info' = [info EXCEPT ![r] = Confirmed(@)]
             /\ SendOn(popped, link, Ack(r)) /\ task' = [task EXCEPT ![r] = "done"]
    <3>1. file \in stored[r]
      BY <1>2, <2>3, TidType DEF Inv, HonestFrames
    <3>2. InfosGood(info') /\ FlagsGood(info')
      BY <1>1, <2>3, <3>1, ConfirmedGood DEF Inv
    <3>3. ConnsGood(conn')
      BY <1>2, <2>3, SessionFrames, SendOnGood DEF Inv, ConnsGood
    <3> QED
      BY <2>0, <2>3, <3>2, <3>3
  <2> QED
    BY <1>3, <2>1, <2>2, <2>3
<1>5. Honest'
  BY <1>1, <1>4, KeepsHonest DEF Inv, attemptVars, rcvVars
<1>6. TypeOK'
  BY <1>1, <1>4 DEF Inv, TypeOK, attemptVars, rcvVars, InfosGood, ConnsGood
<1> QED
  BY <1>5, <1>6 DEF Inv

LEMMA BackfillGivesUpInv == ASSUME Inv, NEW r \in Receivers, BackfillGivesUp(r) PROVE Inv'
<1>1. /\ pc = "backfill" /\ Abandon(r) /\ (UNCHANGED faults \/ DeadlinePasses({r}))
      /\ UNCHANGED <<attemptVars, pc, batch, rcvVars, centrals>>
  BY DEF BackfillGivesUp
<1>2. faults' \in 0 .. MaxFaults
  BY <1>1, SessionAssumption DEF Inv, TypeOK, DeadlinePasses
<1>3. /\ InfosGood(info') /\ (FlagsGood(info) => FlagsGood(info')) /\ ConnsGood(conn')
      /\ task' \in [Receivers -> {"none", "todo", "waiting", "done"}]
  BY <1>1, AbandonGood DEF Inv
<1>4. Honest'
  BY <1>1, <1>3, KeepsHonest DEF Inv, attemptVars, rcvVars
<1>5. TypeOK'
  BY <1>1, <1>2, <1>3 DEF Inv, TypeOK, attemptVars, rcvVars, InfosGood, ConnsGood
<1> QED
  BY <1>4, <1>5 DEF Inv

LEMMA BackfillEndsInv == ASSUME Inv, BackfillEnds PROVE Inv'
<1> DEFINE known == InfoAfter(Rejoining)
           verdict == Verdict(known)
           frames == IF verdict = "Success" THEN NoFrames ELSE FailedFrames(known)
<1>1. Rejoining \in SUBSET Receivers
  BY DEF Rejoining, Pending
<1>2. /\ InfosGood(known) /\ ConnsGood(ConnAfter(Rejoining))
      /\ LinkAfter(Rejoining) \in [Receivers -> {"up", "down", "pending", "gone"}]
      /\ (FlagsGood(info) => FlagsGood(known))
  BY <1>1, AfterGood DEF Inv
<1>3. frames \in [Receivers -> Seq(RcvFrames)]
  BY NoFramesType, SessionFrames DEF Inv
<1>4. verdict \in {"Success", "Sha256Mismatch", "Failed"}
  BY DEF Verdict
<1>5. /\ pc = "backfill" /\ link' = LinkAfter(Rejoining) /\ result' = verdict
      /\ \E then \in {"return", "verdict"} : EnterBarrier(known, then)
      /\ SendOn(ConnAfter(Rejoining), link', frames)
      /\ task' = [r \in Receivers |-> "none"]
      /\ UNCHANGED <<mode, file, attempt, section, round, cached, batch, cur, phase, drain,
                     stored, faults, centrals>>
  BY DEF BackfillEnds, Joined
<1> HIDE DEF known, verdict, frames
<1>6. /\ InfosGood(info') /\ (FlagsGood(known) => FlagsGood(info'))
      /\ pc' = "barrier" /\ after' \in {"return", "verdict"}
  BY <1>2, <1>5, EnterBarrierGood DEF EnterBarrier
<1>7. ConnsGood(conn')
  BY <1>2, <1>3, <1>5, SendOnGood DEF ConnsGood
<1>8. Honest'
  BY <1>2, <1>5, <1>6, <1>7, KeepsHonest DEF Inv
<1>9. TypeOK'
  BY <1>2, <1>4, <1>5, <1>6, <1>7 DEF Inv, TypeOK, InfosGood, ConnsGood
<1> QED
  BY <1>8, <1>9 DEF Inv

LEMMA StatusLostInv == ASSUME Inv, StatusLost PROVE Inv'
<1>1. Rejoining \in SUBSET Receivers
  BY DEF Rejoining, Pending
<1>2. /\ InfosGood(info') /\ ConnsGood(conn') /\ (FlagsGood(info) => FlagsGood(info'))
      /\ link' \in [Receivers -> {"up", "down", "pending", "gone"}]
  BY <1>1, AfterGood DEF Inv, StatusLost
<1>3. /\ pc = "backfill" /\ pc' = "away" /\ result' = "Success"
      /\ task' = [r \in Receivers |-> "none"]
      /\ UNCHANGED <<mode, file, attempt, section, round, after, cached, batch, cur, phase,
                     drain, stored, faults, centrals>>
  BY DEF StatusLost, Joined
<1>4. Honest'
  BY <1>2, <1>3, KeepsHonest DEF Inv
<1>5. TypeOK'
  BY <1>2, <1>3 DEF Inv, TypeOK, InfosGood, ConnsGood
<1> QED
  BY <1>4, <1>5 DEF Inv

------------------------------------------------------------------------------
(* From one file to the next *)

LEMMA FileDoneGood ==
    ASSUME TypeOK, FileDone
    PROVE  /\ pc' \in {"end", "begin"} /\ file' \in 1 .. Files
           /\ attempt' \in 0 .. MaxRetries /\ cached' = FALSE
           /\ (pc' = "end" => file' = file)
  BY FilesIsNat, SessionAssumption DEF FileDone, TypeOK

LEMMA FileEndsInv == ASSUME Inv, FileEnds PROVE Inv'
<1>1. /\ pc = "barrier" /\ InfosGood(info) /\ FlagsGood(info) /\ ConnsGood(conn)
      /\ UNCHANGED <<mode, section, round, result, after, batch, task, rcvVars, faults, centrals>>
  BY DEF FileEnds, BarrierPassed, Inv, Honest
<1>2. InfosGood(info') /\ FlagsGood(info') /\ ConnsGood(conn')
  <2>1. CASE UNCHANGED <<info, conn>>
    BY <1>1, <2>1
  <2>2. CASE /\ info' = [r \in Receivers |-> [info[r] EXCEPT !.abandoned = @ \/ Abandoned(r)]]
             /\ conn' = [r \in Receivers |-> IF Abandoned(r) THEN Closed(conn[r]) ELSE conn[r]]
    <3>1. ASSUME NEW r \in Receivers
          PROVE  /\ info'[r] \in Infos
                 /\ info'[r].state = info[r].state /\ info'[r].id = info[r].id
                 /\ info'[r].completed = info[r].completed /\ info'[r].meta = info[r].meta
      <4>1. info[r] \in Infos
        BY <1>1 DEF InfosGood
      <4>2. (info[r].abandoned \/ Abandoned(r)) \in BOOLEAN
        OBVIOUS
      <4>3. info'[r] = [info[r] EXCEPT !.abandoned = @ \/ Abandoned(r)]
        BY <2>2
      <4> QED
        BY <4>1, <4>2, <4>3 DEF Infos
    <3>2. info' \in [Receivers -> Infos]
      BY <2>2, <3>1
    <3>3. ASSUME NEW r \in Receivers
          PROVE  conn'[r] \in HonestConns(stored[r]) /\ conn'[r] \in Conns
      <4>1. conn[r] \in HonestConns(stored[r])
        BY <1>1 DEF ConnsGood
      <4>2. Closed(conn[r]) \in HonestConns(stored[r])
        BY <4>1, ClosedGood
      <4>3. conn'[r] \in HonestConns(stored[r])
        BY <2>2, <4>1, <4>2
      <4> QED
        BY <4>3, HonestIsConn
    <3>4. conn' \in [Receivers -> Conns]
      BY <2>2, <3>3
    <3> QED
      BY <1>1, <3>1, <3>2, <3>3, <3>4, InfosKept DEF ConnsGood
  <2> QED
    BY <2>1, <2>2 DEF FileEnds
<1>3. CASE FileDone
  <2>1. /\ pc' \in {"end", "begin"} /\ file' \in 1 .. Files
        /\ attempt' \in 0 .. MaxRetries /\ cached' = FALSE
        /\ (pc' = "end" => file' = file)
    BY <1>3, FileDoneGood DEF Inv
  <2>2. pc' # "begin" \/ cached' => \A r \in Receivers : FlagsOf(info'[r], file', stored[r])
    BY <1>2, <2>1 DEF FlagsGood
  <2>3. Honest'
    BY <1>1, <1>2, <2>2, HonestStep DEF Inv, rcvVars
  <2>4. TypeOK'
    BY <1>1, <1>2, <2>1 DEF Inv, TypeOK, rcvVars, InfosGood, ConnsGood
  <2> QED
    BY <2>3, <2>4 DEF Inv
<1>4. CASE pc' = "away" /\ cached' = TRUE /\ UNCHANGED <<file, attempt>>
  <2>1. Honest'
    BY <1>1, <1>2, <1>4, KeepsHonest DEF Inv, rcvVars
  <2>2. TypeOK'
    BY <1>1, <1>2, <1>4 DEF Inv, TypeOK, rcvVars, InfosGood, ConnsGood
  <2> QED
    BY <2>1, <2>2 DEF Inv
<1> QED
  BY <1>3, <1>4 DEF FileEnds

LEMMA CachedFileInv == ASSUME Inv, CachedFile PROVE Inv'
<1> DEFINE known == InfoAfter(Pending)
           finished == {r \in Receivers : known[r].state = "Completed" /\ known[r].id = Tid}
           frames == [r \in Receivers |-> IF r \in finished THEN <<Frame("COMPLETE_ACK", Tid)>>
                                          ELSE <<>>]
<1>1. /\ InfosGood(known) /\ ConnsGood(ConnAfter(Pending))
      /\ LinkAfter(Pending) \in [Receivers -> {"up", "down", "pending", "gone"}]
      /\ (FlagsGood(info) => FlagsGood(known))
  BY AfterGood DEF Inv, Pending
<1>2. FlagsGood(info) /\ Tid \in Ids /\ Tid[1] = file
  BY TidType DEF CachedFile, Inv, Honest
<1>3. frames \in [Receivers -> Seq(RcvFrames)]
  BY <1>2, FrameType, EmptySeq
<1>4. /\ link' = LinkAfter(Pending) /\ SendOn(ConnAfter(Pending), link', frames)
      /\ info' = [r \in Receivers |->
                       IF r \in finished
                       THEN [known[r] EXCEPT !.meta = Tid, !.metaReady = TRUE, !.completed = TRUE]
                       ELSE [known[r] EXCEPT !.meta = Tid]]
      /\ UNCHANGED <<mode, section, round, result, after, batch, task, cur, phase, drain,
                     stored, faults, centrals>>
  BY DEF CachedFile
<1>5. ASSUME NEW r \in Receivers
      PROVE  /\ info'[r] \in HonestInfos(stored[r]) /\ info'[r] \in Infos
             /\ FlagsOf(info'[r], file, stored[r])
  <2>1. /\ known[r] \in Infos /\ known[r] \in HonestInfos(stored[r])
        /\ FlagsOf(known[r], file, stored[r])
    BY <1>1, <1>2 DEF InfosGood, FlagsGood
  <2>2. r \in finished => file \in stored[r]
    BY <1>2, <2>1 DEF HonestInfos
  <2>3. CASE r \in finished
    <3> HIDE DEF known, finished
    <3>1. info'[r] = [known[r] EXCEPT !.meta = Tid, !.metaReady = TRUE, !.completed = TRUE]
      BY <1>4, <2>3
    <3>2. /\ info'[r] \in Infos /\ info'[r].state = known[r].state /\ info'[r].id = known[r].id
          /\ info'[r].meta = Tid
      BY <1>2, <2>1, <3>1 DEF Infos
    <3> QED
      BY <1>2, <2>1, <2>2, <2>3, <3>2 DEF HonestInfos, FlagsOf
  <2>4. CASE r \notin finished
    <3> HIDE DEF known, finished
    <3>1. info'[r] = [known[r] EXCEPT !.meta = Tid]
      BY <1>4, <2>4
    <3>2. /\ info'[r] \in Infos /\ info'[r].state = known[r].state /\ info'[r].id = known[r].id
          /\ info'[r].meta = Tid /\ info'[r].completed = known[r].completed
      BY <1>2, <2>1, <3>1 DEF Infos
    <3> QED
      BY <1>2, <2>1, <3>2 DEF HonestInfos, FlagsOf
  <2> QED
    BY <2>3, <2>4
<1> HIDE DEF known, finished, frames
<1>6. InfosGood(info') /\ FlagsGood(info')
  BY <1>4, <1>5 DEF InfosGood, FlagsGood
<1>7. ConnsGood(conn')
  BY <1>1, <1>3, <1>4, SendOnGood DEF ConnsGood
<1>8. CASE FileDone
  <2>1. /\ pc' \in {"end", "begin"} /\ file' \in 1 .. Files
        /\ attempt' \in 0 .. MaxRetries /\ cached' = FALSE
        /\ (pc' = "end" => file' = file)
    BY <1>8, FileDoneGood DEF Inv
  <2>2. pc' # "begin" \/ cached' => \A r \in Receivers : FlagsOf(info'[r], file', stored[r])
    BY <1>6, <2>1 DEF FlagsGood
  <2>3. Honest'
    BY <1>4, <1>6, <1>7, <2>2, HonestStep DEF Inv
  <2>4. TypeOK'
    BY <1>1, <1>4, <1>6, <1>7, <2>1 DEF Inv, TypeOK, InfosGood, ConnsGood
  <2> QED
    BY <2>3, <2>4 DEF Inv
<1>9. CASE pc' = "away" /\ UNCHANGED <<file, attempt, cached>>
  <2>1. \A r \in Receivers : FlagsOf(info'[r], file', stored[r])
    BY <1>6, <1>9 DEF FlagsGood
  <2>2. Honest'
    BY <1>4, <1>6, <1>7, <2>1, HonestStep DEF Inv
  <2>3. TypeOK'
    BY <1>1, <1>4, <1>6, <1>7, <1>9 DEF Inv, TypeOK, InfosGood, ConnsGood
  <2> QED
    BY <2>2, <2>3 DEF Inv
<1>10. FileDone \/ (pc' = "away" /\ UNCHANGED <<file, attempt, cached>>)
  BY DEF CachedFile
<1> QED
  BY <1>8, <1>9, <1>10

LEMMA SessionEndInv == ASSUME Inv, SessionEnd PROVE Inv'
<1>1. /\ InfosGood(info') /\ ConnsGood(ConnAfter(Pending))
      /\ link' \in [Receivers -> {"up", "down", "pending", "gone"}]
      /\ (FlagsGood(info) => FlagsGood(info'))
  BY AfterGood DEF Inv, Pending, SessionEnd
<1>2. /\ pc = "end" /\ pc' = "over"
      /\ SendOn(ConnAfter(Pending), link', [r \in Receivers |-> <<Frame("SESSION_END", NoId)>>])
      /\ UNCHANGED <<attemptVars, batch, task, cur, phase, drain, stored, faults, centrals>>
  BY DEF SessionEnd
<1>3. NoId \in Ids
  BY DEF Ids
<1>4. [r \in Receivers |-> <<Frame("SESSION_END", NoId)>>] \in [Receivers -> Seq(RcvFrames)]
  BY <1>3, FrameType
<1>5. ConnsGood(conn')
  BY <1>1, <1>2, <1>4, SendOnGood DEF ConnsGood
<1>6. Honest'
  BY <1>1, <1>2, <1>5, KeepsHonest DEF Inv, attemptVars
<1>7. TypeOK'
  BY <1>1, <1>2, <1>5 DEF Inv, TypeOK, attemptVars, InfosGood, ConnsGood
<1> QED
  BY <1>6, <1>7 DEF Inv

------------------------------------------------------------------------------
(* The steps of a receiver *)

Phases == {"idle", "receiving", "awaiting", "shafailed"}

\* A step of receiver r: its transfer becomes <<id, ph>>, its connection c, and
\* the files it has stored S.
LEMMA OneReceiver ==
    ASSUME Inv, NEW r \in Receivers, NEW id \in Ids, NEW ph \in Phases,
           NEW S \in SUBSET (0 .. Files), stored[r] \subseteq S,
           NEW c \in HonestConns(S), ph = "awaiting" => id[1] \in S,
           cur' = [cur EXCEPT ![r] = id], phase' = [phase EXCEPT ![r] = ph],
           stored' = [stored EXCEPT ![r] = S], conn' = [conn EXCEPT ![r] = c],
           drain' \in [Receivers -> {<<>>} \cup (Nat \X Rounds)],
           link' \in [Receivers -> {"up", "down", "pending", "gone"}],
           faults' \in 0 .. MaxFaults,
           UNCHANGED <<attemptVars, pc, batch, task, info, centrals>>
    PROVE  Inv'
<1>1. TypeOK
  BY DEF Inv
<1>2. /\ cur'[r] = id /\ phase'[r] = ph /\ stored'[r] = S /\ conn'[r] = c
      /\ \A q \in Receivers : q # r => /\ cur'[q] = cur[q] /\ phase'[q] = phase[q]
                                       /\ stored'[q] = stored[q] /\ conn'[q] = conn[q]
  BY <1>1 DEF TypeOK
<1>3. \A q \in Receivers : stored[q] \subseteq stored'[q]
  BY <1>2
<1>4. ASSUME NEW q \in Receivers
      PROVE  conn'[q] \in HonestConns(stored'[q]) /\ conn'[q] \in Conns
  <2>1. conn[q] \in HonestConns(stored[q])
    BY DEF Inv, Honest, ConnsGood
  <2>2. conn'[q] \in HonestConns(stored'[q])
    BY <1>2, <2>1
  <2> QED
    BY <2>2, HonestIsConn
<1>5. conn' \in [Receivers -> Conns]
  BY <1>1, <1>4 DEF TypeOK
<1>6. ConnsGood(conn)'
  BY <1>4, <1>5 DEF ConnsGood
<1>7. AwaitingIsStored'
  BY <1>2 DEF AwaitingIsStored, Inv, Honest
<1>8. InfosGood(info)'
  BY <1>3 DEF InfosGood, HonestInfos, Inv, Honest
<1>9. FlagsGood(info) => FlagsGood(info)'
  BY <1>3 DEF FlagsGood, FlagsOf, attemptVars
<1>10. Honest'
  BY <1>6, <1>7, <1>8, <1>9 DEF Inv, Honest, attemptVars
<1>11. /\ cur' \in [Receivers -> Ids] /\ phase' \in [Receivers -> Phases]
       /\ stored' \in [Receivers -> SUBSET (0 .. Files)]
  BY <1>1 DEF TypeOK, Phases
<1>12. TypeOK'
  BY <1>1, <1>5, <1>11 DEF TypeOK, attemptVars, Phases
<1> QED
  BY <1>10, <1>12 DEF Inv

\* What is known of a receiver before its step.
LEMMA ReceiverState ==
    ASSUME Inv, NEW r \in Receivers
    PROVE  /\ cur[r] \in Ids /\ phase[r] \in Phases /\ stored[r] \in SUBSET (0 .. Files)
           /\ cur[r][1] \in 0 .. Files
           /\ (phase[r] = "awaiting" => cur[r][1] \in stored[r])
           /\ conn[r] \in HonestConns(stored[r])
           /\ cur = [cur EXCEPT ![r] = cur[r]] /\ phase = [phase EXCEPT ![r] = phase[r]]
           /\ stored = [stored EXCEPT ![r] = stored[r]]
           /\ drain \in [Receivers -> {<<>>} \cup (Nat \X Rounds)]
           /\ [drain EXCEPT ![r] = <<>>] \in [Receivers -> {<<>>} \cup (Nat \X Rounds)]
           /\ link \in [Receivers -> {"up", "down", "pending", "gone"}]
           /\ faults \in 0 .. MaxFaults /\ MaxFaults \in Nat
  BY IdFile, SessionAssumption DEF Inv, TypeOK, Honest, AwaitingIsStored, ConnsGood, Phases

\* The end of a connection at a receiver that closes it or loses it.
LEMMA CutGood ==
    ASSUME NEW S, NEW c \in HonestConns(S), NEW e \in BOOLEAN,
           NEW k \in 0 .. Len(c.toProxy)
    PROVE  /\ [c EXCEPT !.toRcv = <<>>] \in HonestConns(S)
           /\ [c EXCEPT !.toRcv = <<>>, !.eof = e] \in HonestConns(S)
           /\ [c EXCEPT !.toRcv = <<>>, !.eof = e, !.toProxy = SubSeq(@, 1, k)]
                \in HonestConns(S)
<1>1. /\ <<>> \in Seq(RcvFrames) /\ c.toProxy \in Seq(HonestFrames(S))
      /\ Len(c.toProxy) \in Nat
  BY EmptySeq, LenProperties DEF HonestConns
<1>2. SubSeq(c.toProxy, 1, k) \in Seq(HonestFrames(S))
  <2>1. \A i \in 1 .. k : c.toProxy[i] \in HonestFrames(S)
    BY <1>1, ElementOfSeq
  <2> QED
    BY <1>1, <2>1, SubSeqProperties
<1> QED
  BY <1>1, <1>2 DEF HonestConns

\* The receiver has read a frame and answers.
LEMMA AnsweredGood ==
    ASSUME NEW S, NEW T, S \subseteq T, NEW c \in HonestConns(S),
           NEW frames \in Seq(HonestFrames(T))
    PROVE  /\ [c EXCEPT !.toProxy = IF c.open THEN @ \o frames ELSE @] \in HonestConns(T)
           /\ c.toRcv # <<>> =>
                /\ Head(c.toRcv) \in RcvFrames
                /\ [c EXCEPT !.toRcv = Tail(@),
                             !.toProxy = IF c.open THEN @ \o frames ELSE @] \in HonestConns(T)
<1>1. c \in HonestConns(T)
  BY HonestIsConn
<1>2. c.toProxy \o frames \in Seq(HonestFrames(T))
  BY <1>1, ConcatProperties DEF HonestConns
<1>3. (IF c.open THEN c.toProxy \o frames ELSE c.toProxy) \in Seq(HonestFrames(T))
  BY <1>1, <1>2 DEF HonestConns
<1>4. c.toRcv # <<>> => Head(c.toRcv) \in RcvFrames /\ Tail(c.toRcv) \in Seq(RcvFrames)
  BY <1>1, HeadTailProperties DEF HonestConns
<1>5. [c EXCEPT !.toProxy = IF c.open THEN @ \o frames ELSE @] \in HonestConns(T)
  BY <1>1, <1>3 DEF HonestConns
<1>6. c.toRcv # <<>> => [c EXCEPT !.toRcv = Tail(@),
                             !.toProxy = IF c.open THEN @ \o frames ELSE @] \in HonestConns(T)
  BY <1>1, <1>3, <1>4 DEF HonestConns
<1> QED
  BY <1>4, <1>5, <1>6

LEMMA ReconnectInv == ASSUME Inv, NEW r \in Receivers, Reconnect(r) PROVE Inv'
<1>1. /\ link' \in [Receivers -> {"up", "down", "pending", "gone"}]
      /\ conn = [conn EXCEPT ![r] = conn[r]]
  BY DEF Reconnect, Inv, TypeOK
<1>2. UNCHANGED <<attemptVars, pc, batch, task, info, conn, cur, phase, drain, stored, faults,
                  centrals>>
  BY DEF Reconnect
<1>3. /\ cur' = [cur EXCEPT ![r] = cur[r]] /\ phase' = [phase EXCEPT ![r] = phase[r]]
      /\ stored' = [stored EXCEPT ![r] = stored[r]] /\ conn' = [conn EXCEPT ![r] = conn[r]]
  BY <1>1, <1>2, ReceiverState
<1>4. /\ cur[r] \in Ids /\ phase[r] \in Phases /\ stored[r] \in SUBSET (0 .. Files)
      /\ (phase[r] = "awaiting" => cur[r][1] \in stored[r])
      /\ conn[r] \in HonestConns(stored[r])
      /\ drain' \in [Receivers -> {<<>>} \cup (Nat \X Rounds)] /\ faults' \in 0 .. MaxFaults
  BY <1>2, ReceiverState
<1>5. stored[r] \subseteq stored[r] /\ UNCHANGED <<attemptVars, pc, batch, task, info, centrals>>
  BY <1>2
<1>6. link' \in [Receivers -> {"up", "down", "pending", "gone"}]
  BY <1>1
<1> QED
  BY <1>3, <1>4, <1>5, <1>6, OneReceiver

LEMMA LinkLostInv ==
    ASSUME Inv, NEW r \in Receivers,
           RcvClash(r) \/ SeesClose(r) \/ RcvSessionEnd(r) \/ Break(r) \/ Die(r)
    PROVE  Inv'
<1> DEFINE c == conn[r]
<1>1. c \in HonestConns(stored[r]) /\ conn \in [Receivers -> Conns]
  BY ReceiverState DEF Inv, TypeOK
<1>2. PICK d \in HonestConns(stored[r]) : conn' = [conn EXCEPT ![r] = d]
  <2>1. c.open \in BOOLEAN /\ c.eof \in BOOLEAN /\ c.toProxy \in Seq(HonestFrames(stored[r]))
    BY <1>1 DEF HonestConns
  <2>2. CASE RcvClash(r)
    <3>1. (c.eof \/ c.open) \in BOOLEAN /\ 0 \in 0 .. Len(c.toProxy)
      BY <2>1, LenProperties
    <3>2. [c EXCEPT !.toRcv = <<>>, !.eof = c.eof \/ c.open] \in HonestConns(stored[r])
      BY <1>1, <3>1, CutGood
    <3>3. conn' = [conn EXCEPT ![r] = [c EXCEPT !.toRcv = <<>>, !.eof = c.eof \/ c.open]]
      BY <2>2 DEF RcvClash
    <3> QED
      BY <3>2, <3>3
  <2>3. CASE SeesClose(r) \/ RcvSessionEnd(r)
    <3>1. 0 \in 0 .. Len(c.toProxy)
      BY <2>1, LenProperties
    <3>2. [c EXCEPT !.toRcv = <<>>] \in HonestConns(stored[r])
      BY <1>1, <2>1, <3>1, CutGood
    <3>3. conn' = [conn EXCEPT ![r] = [c EXCEPT !.toRcv = <<>>]]
      BY <2>3 DEF SeesClose, RcvSessionEnd
    <3> QED
      BY <3>2, <3>3
  <2>4. CASE Break(r) \/ Die(r)
    <3>1. PICK kept \in Arrived(r) .. Len(conn[r].toProxy), seen \in BOOLEAN :
            conn' = [conn EXCEPT ![r].toRcv = <<>>, ![r].eof = seen,
                                 ![r].toProxy = SubSeq(@, 1, kept)]
      BY <2>4 DEF Break, Die, Cut
    <3>2. kept \in 0 .. Len(c.toProxy)
      <4>1. Arrived(r) \in {0, 1}
        BY DEF Arrived
      <4> QED
        BY <4>1
    <3>3. [c EXCEPT !.toRcv = <<>>, !.eof = seen, !.toProxy = SubSeq(@, 1, kept)]
            \in HonestConns(stored[r])
      BY <1>1, <3>2, CutGood
    <3>4. conn' = [conn EXCEPT ![r] = [c EXCEPT !.toRcv = <<>>, !.eof = seen,
                                                !.toProxy = SubSeq(@, 1, kept)]]
      BY <3>1
    <3> QED
      BY <3>3, <3>4
  <2> QED
    BY <2>2, <2>3, <2>4
<1>3. link' \in [Receivers -> {"up", "down", "pending", "gone"}]
  BY DEF RcvClash, SeesClose, RcvSessionEnd, Break, Die, Inv, TypeOK
<1>4. /\ UNCHANGED <<attemptVars, pc, batch, task, info, stored, centrals>>
      /\ drain' \in {drain, [drain EXCEPT ![r] = <<>>]}
      /\ (UNCHANGED faults \/ (faults > 0 /\ faults' = faults - 1))
      /\ \/ UNCHANGED <<cur, phase>>
         \/ cur' = [cur EXCEPT ![r] = NoId] /\ phase' = [phase EXCEPT ![r] = "idle"]
  BY DEF RcvClash, SeesClose, RcvSessionEnd, Break, Die
<1>5. faults' \in 0 .. MaxFaults /\ drain' \in [Receivers -> {<<>>} \cup (Nat \X Rounds)]
  BY <1>4, ReceiverState
<1>6. CASE UNCHANGED <<cur, phase>>
  <2>1. /\ cur' = [cur EXCEPT ![r] = cur[r]] /\ phase' = [phase EXCEPT ![r] = phase[r]]
        /\ stored' = [stored EXCEPT ![r] = stored[r]]
    BY <1>4, <1>6, ReceiverState
  <2>2. /\ cur[r] \in Ids /\ phase[r] \in Phases /\ stored[r] \in SUBSET (0 .. Files)
        /\ (phase[r] = "awaiting" => cur[r][1] \in stored[r])
    BY ReceiverState
  <2> QED
    BY <1>2, <1>3, <1>4, <1>5, <2>1, <2>2, OneReceiver
<1>7. CASE cur' = [cur EXCEPT ![r] = NoId] /\ phase' = [phase EXCEPT ![r] = "idle"]
  <2>1. NoId \in Ids /\ "idle" \in Phases
    BY DEF Ids, Phases
  <2> QED
    BY <1>2, <1>3, <1>4, <1>5, <1>7, <2>1, ReceiverState, OneReceiver
<1> QED
  BY <1>4, <1>6, <1>7

\* RECEIVER_COMPLETE of a file that is stored is an honest frame, as are the others.
LEMMA AnswerType ==
    ASSUME NEW S, NEW id \in Ids
    PROVE  /\ <<>> \in Seq(HonestFrames(S))
           /\ <<Frame("META_READY", id)>> \in Seq(HonestFrames(S))
           /\ <<Frame("RECEIVER_READY", id)>> \in Seq(HonestFrames(S))
           /\ id[1] \in S => Frame("RECEIVER_COMPLETE", id) \in HonestFrames(S)
           /\ id[1] \in S => <<Frame("RECEIVER_COMPLETE", id)>> \in Seq(HonestFrames(S))
           /\ \A s \in Nat : \A k \in Rounds : \A code \in {"Missing", "Complete", "Failed"} :
                /\ SectionStatus(id, s, k, code) \in HonestFrames(S)
                /\ <<SectionStatus(id, s, k, code)>> \in Seq(HonestFrames(S))
<1>1. /\ Frame("META_READY", id) \in HonestFrames(S)
      /\ Frame("RECEIVER_READY", id) \in HonestFrames(S)
      /\ id[1] \in S => Frame("RECEIVER_COMPLETE", id) \in HonestFrames(S)
  BY DEF Frame, HonestFrames, ProxyFrames
<1>2. ASSUME NEW s \in Nat, NEW k \in Rounds, NEW code \in {"Missing", "Complete", "Failed"}
      PROVE  /\ SectionStatus(id, s, k, code) \in HonestFrames(S)
             /\ <<SectionStatus(id, s, k, code)>> \in Seq(HonestFrames(S))
  <2>1. SectionStatus(id, s, k, code) \in ProxyFrames
    BY DEF SectionStatus, ProxyFrames
  <2>2. SectionStatus(id, s, k, code).type = "SECTION_STATUS"
    BY DEF SectionStatus
  <2>3. SectionStatus(id, s, k, code) \in HonestFrames(S)
    BY <2>1, <2>2 DEF HonestFrames
  <2> QED
    BY <2>3
<1> QED
  BY <1>1, <1>2, EmptySeq

\* The receiver has read a frame: what Becomes leaves.
LEMMA BecomesInv ==
    ASSUME Inv, NEW r \in Receivers, NEW id \in Ids, NEW ph \in Phases,
           NEW S \in SUBSET (0 .. Files), stored[r] \subseteq S, ph = "awaiting" => id[1] \in S,
           NEW frames \in Seq(HonestFrames(S)), conn[r].toRcv # <<>>,
           Becomes(r, id, ph, frames), stored' = [stored EXCEPT ![r] = S],
           drain' \in [Receivers -> {<<>>} \cup (Nat \X Rounds)], faults' \in 0 .. MaxFaults,
           UNCHANGED <<attemptVars, pc, batch, task, info, link, centrals>>
    PROVE  Inv'
<1> DEFINE c == [conn[r] EXCEPT !.toRcv = Tail(@),
                                !.toProxy = IF conn[r].open THEN @ \o frames ELSE @]
<1>1. conn[r] \in HonestConns(stored[r]) /\ link' \in [Receivers -> {"up", "down", "pending", "gone"}]
  BY ReceiverState
<1>2. c \in HonestConns(S)
  BY <1>1, AnsweredGood
<1>3. conn' = [conn EXCEPT ![r] = c]
  BY DEF Becomes
<1>4. cur' = [cur EXCEPT ![r] = id] /\ phase' = [phase EXCEPT ![r] = ph]
  BY DEF Becomes
<1> HIDE DEF c
<1> QED
  BY <1>1, <1>2, <1>3, <1>4, OneReceiver

\* The transfer id of a frame for a receiver.
LEMMA HeadType ==
    ASSUME Inv, NEW r \in Receivers, conn[r].toRcv # <<>>
    PROVE  /\ Head(conn[r].toRcv) \in RcvFrames /\ Head(conn[r].toRcv).id \in Ids
           /\ Head(conn[r].toRcv).type = "SECTION_END" =>
                Head(conn[r].toRcv).section \in Nat /\ Head(conn[r].toRcv).round \in Rounds
<1>1. conn[r].toRcv \in Seq(RcvFrames)
  BY ReceiverState DEF HonestConns
<1>2. Head(conn[r].toRcv) \in RcvFrames
  BY <1>1, HeadTailProperties
<1> QED
  BY <1>2 DEF RcvFrames

LEMMA RcvFileMetaInv ==
    ASSUME Inv, NEW r \in Receivers, RcvFileMeta(r),
           UNCHANGED <<attemptVars, pc, batch, task, info, link, centrals>>
    PROVE  Inv'
<1> DEFINE id == Head(conn[r].toRcv).id
<1>1. conn[r].toRcv # <<>> /\ id \in Ids /\ UNCHANGED <<stored, faults>>
  BY HeadType DEF RcvFileMeta, Receives
<1>2. /\ phase[r] \in Phases /\ stored[r] \in SUBSET (0 .. Files)
      /\ (phase[r] = "awaiting" => cur[r][1] \in stored[r])
      /\ stored' = [stored EXCEPT ![r] = stored[r]] /\ faults' \in 0 .. MaxFaults
  BY <1>1, ReceiverState
<1>3. drain' \in [Receivers -> {<<>>} \cup (Nat \X Rounds)]
  BY ReceiverState DEF RcvFileMeta
<1>4. CASE cur[r] = id
  <2> DEFINE frames == <<Frame(IF phase[r] = "awaiting" THEN "RECEIVER_COMPLETE"
                               ELSE "META_READY", id)>>
  <2>1. Becomes(r, id, phase[r], frames)
    BY <1>4 DEF RcvFileMeta
  <2>2. frames \in Seq(HonestFrames(stored[r]))
    BY <1>1, <1>2, <1>4, AnswerType
  <2>3. phase[r] = "awaiting" => id[1] \in stored[r]
    BY <1>2, <1>4
  <2> HIDE DEF id, frames
  <2> QED
    BY <1>1, <1>2, <1>3, <2>1, <2>2, <2>3, BecomesInv
<1>5. CASE cur[r] # id
  <2>1. Becomes(r, id, "receiving", <<Frame("META_READY", id)>>)
    BY <1>5 DEF RcvFileMeta
  <2>2. <<Frame("META_READY", id)>> \in Seq(HonestFrames(stored[r]))
    BY <1>1, AnswerType
  <2>3. "receiving" \in Phases
    BY DEF Phases
  <2> HIDE DEF id
  <2> QED
    BY <1>1, <1>2, <1>3, <2>1, <2>2, <2>3, BecomesInv
<1> QED
  BY <1>4, <1>5

\* The receiver reads a frame and keeps its transfer.
LEMMA KeepsTransferInv ==
    ASSUME Inv, NEW r \in Receivers, conn[r].toRcv # <<>>, Becomes(r, cur[r], phase[r], <<>>),
           UNCHANGED <<stored, faults>>,
           drain' \in [Receivers -> {<<>>} \cup (Nat \X Rounds)],
           UNCHANGED <<attemptVars, pc, batch, task, info, link, centrals>>
    PROVE  Inv'
<1>1. /\ cur[r] \in Ids /\ phase[r] \in Phases /\ stored[r] \in SUBSET (0 .. Files)
      /\ (phase[r] = "awaiting" => cur[r][1] \in stored[r])
      /\ stored' = [stored EXCEPT ![r] = stored[r]] /\ faults' \in 0 .. MaxFaults
  BY ReceiverState
<1>2. <<>> \in Seq(HonestFrames(stored[r]))
  BY EmptySeq
<1> QED
  BY <1>1, <1>2, BecomesInv

LEMMA RcvSectionEndInv ==
    ASSUME Inv, NEW r \in Receivers, RcvSectionEnd(r),
           UNCHANGED <<attemptVars, pc, batch, task, info, link, centrals>>
    PROVE  Inv'
<1> DEFINE f == Head(conn[r].toRcv)
<1>1. /\ conn[r].toRcv # <<>> /\ f.type = "SECTION_END" /\ UNCHANGED <<stored, faults>>
      /\ Becomes(r, cur[r], phase[r], <<>>)
  BY DEF RcvSectionEnd, Receives
<1>2. f.section \in Nat /\ f.round \in Rounds
  BY <1>1, HeadType
<1>3. drain' \in {drain, [drain EXCEPT ![r] = <<f.section, f.round>>]}
  BY DEF RcvSectionEnd
<1> HIDE DEF f
<1>4. drain' \in [Receivers -> {<<>>} \cup (Nat \X Rounds)]
  BY <1>2, <1>3 DEF Inv, TypeOK
<1> QED
  BY <1>1, <1>4, KeepsTransferInv

\* finalize_transfer: the file is stored, or a fault was counted.
LEMMA CommitsGood ==
    ASSUME Inv, NEW r \in Receivers, Commits(r)
    PROVE  \E S \in SUBSET (0 .. Files) :
             /\ stored[r] \subseteq S /\ cur[r][1] \in S
             /\ stored' = [stored EXCEPT ![r] = S] /\ faults' \in 0 .. MaxFaults
<1> DEFINE S == stored[r] \cup {cur[r][1]}
<1>1. S \in SUBSET (0 .. Files) /\ stored' = [stored EXCEPT ![r] = S]
  BY ReceiverState DEF Commits
<1>2. faults' \in 0 .. MaxFaults
  BY ReceiverState DEF Commits
<1> QED
  BY <1>1, <1>2

LEMMA CorruptGood ==
    ASSUME Inv, NEW r \in Receivers, Corrupt
    PROVE  stored' = [stored EXCEPT ![r] = stored[r]] /\ faults' \in 0 .. MaxFaults
  BY ReceiverState DEF Corrupt

LEMMA RcvBackfillInv ==
    ASSUME Inv, NEW r \in Receivers, RcvBackfill(r),
           UNCHANGED <<attemptVars, pc, batch, task, info, link, centrals>>
    PROVE  Inv'
<1>1. /\ conn[r].toRcv # <<>> /\ UNCHANGED drain
  BY DEF RcvBackfill, Receives
<1>2. /\ cur[r] \in Ids /\ phase[r] \in Phases /\ stored[r] \in SUBSET (0 .. Files)
      /\ drain' \in [Receivers -> {<<>>} \cup (Nat \X Rounds)]
  BY <1>1, ReceiverState
<1>3. CASE Becomes(r, cur[r], phase[r], <<>>) /\ UNCHANGED <<stored, faults>>
  BY <1>1, <1>2, <1>3, KeepsTransferInv
<1>4. CASE /\ Becomes(r, cur[r], "awaiting", <<Frame("RECEIVER_COMPLETE", cur[r])>>)
           /\ Commits(r)
  <2>1. PICK S \in SUBSET (0 .. Files) :
             /\ stored[r] \subseteq S /\ cur[r][1] \in S
             /\ stored' = [stored EXCEPT ![r] = S] /\ faults' \in 0 .. MaxFaults
    BY <1>4, CommitsGood
  <2>2. <<Frame("RECEIVER_COMPLETE", cur[r])>> \in Seq(HonestFrames(S))
    BY <1>2, <2>1, AnswerType
  <2>3. "awaiting" \in Phases
    BY DEF Phases
  <2> QED
    BY <1>1, <1>2, <1>4, <2>1, <2>2, <2>3, BecomesInv
<1>5. ASSUME NEW ph \in {"receiving", "shafailed"},
             Becomes(r, cur[r], ph, <<SectionStatus(cur[r], 0, 0, "Failed")>>), Corrupt
      PROVE  Inv'
  <2>1. 0 \in Nat /\ 0 \in Rounds
    BY SessionAssumption DEF Rounds
  <2>2. <<SectionStatus(cur[r], 0, 0, "Failed")>> \in Seq(HonestFrames(stored[r]))
    BY <1>2, <2>1, AnswerType
  <2>3. ph \in Phases /\ ph # "awaiting"
    BY DEF Phases
  <2>4. stored' = [stored EXCEPT ![r] = stored[r]] /\ faults' \in 0 .. MaxFaults
    BY <1>5, CorruptGood
  <2> QED
    BY <1>1, <1>2, <1>5, <2>2, <2>3, <2>4, BecomesInv
<1> QED
  BY <1>3, <1>4, <1>5 DEF RcvBackfill

LEMMA ResetsInv ==
    ASSUME Inv, NEW r \in Receivers, conn[r].toRcv # <<>>, Resets(r),
           UNCHANGED <<attemptVars, pc, batch, task, info, link, centrals>>
    PROVE  Inv'
<1> DEFINE id == Head(conn[r].toRcv).id
<1>1. id \in Ids /\ NoId \in Ids /\ "idle" \in Phases /\ "idle" # "awaiting"
  BY HeadType DEF Ids, Phases
<1>2. /\ stored[r] \in SUBSET (0 .. Files) /\ stored' = [stored EXCEPT ![r] = stored[r]]
      /\ faults' \in 0 .. MaxFaults /\ drain' \in [Receivers -> {<<>>} \cup (Nat \X Rounds)]
  BY ReceiverState DEF Resets
<1>3. <<Frame("RECEIVER_READY", id)>> \in Seq(HonestFrames(stored[r]))
  BY <1>1, AnswerType
<1>4. Becomes(r, NoId, "idle", <<Frame("RECEIVER_READY", id)>>)
  BY DEF Resets
<1> HIDE DEF id
<1> QED
  BY <1>1, <1>2, <1>3, <1>4, BecomesInv

LEMMA RcvFrameInv == ASSUME Inv, NEW r \in Receivers, RcvFrame(r) PROVE Inv'
<1>1. UNCHANGED <<attemptVars, pc, batch, task, info, link, centrals>>
  BY DEF RcvFrame
<1>2. CASE RcvFileMeta(r)
  BY <1>1, <1>2, RcvFileMetaInv
<1>3. CASE RcvSectionEnd(r)
  BY <1>1, <1>3, RcvSectionEndInv
<1>4. CASE RcvBackfill(r)
  BY <1>1, <1>4, RcvBackfillInv
<1>5. CASE RcvCompleteAck(r) \/ RcvTransferResult(r)
  <2>1. conn[r].toRcv # <<>> /\ (Resets(r) \/ Ignores(r))
    BY <1>5 DEF RcvCompleteAck, RcvTransferResult, Receives
  <2>2. CASE Resets(r)
    BY <1>1, <2>1, <2>2, ResetsInv
  <2>3. CASE Ignores(r)
    <3>1. drain' \in [Receivers -> {<<>>} \cup (Nat \X Rounds)]
      BY <2>3, ReceiverState DEF Ignores
    <3> QED
      BY <1>1, <2>1, <2>3, <3>1, KeepsTransferInv DEF Ignores
  <2> QED
    BY <2>1, <2>2, <2>3
<1> QED
  BY <1>2, <1>3, <1>4, <1>5 DEF RcvFrame

\* A receiver reports and its transfer enters phase ph.
LEMMA AnswersInv ==
    ASSUME Inv, NEW r \in Receivers, NEW ph \in Phases, NEW S \in SUBSET (0 .. Files),
           stored[r] \subseteq S, ph = "awaiting" => cur[r][1] \in S,
           NEW frames \in Seq(HonestFrames(S)),
           phase' = [phase EXCEPT ![r] = ph],
           conn' = [conn EXCEPT ![r].toProxy = IF conn[r].open THEN @ \o frames ELSE @],
           stored' = [stored EXCEPT ![r] = S], faults' \in 0 .. MaxFaults,
           drain' = [drain EXCEPT ![r] = <<>>],
           UNCHANGED <<attemptVars, pc, batch, task, info, link, cur, centrals>>
    PROVE  Inv'
<1> DEFINE c == [conn[r] EXCEPT !.toProxy = IF conn[r].open THEN @ \o frames ELSE @]
<1>1. /\ cur[r] \in Ids /\ cur' = [cur EXCEPT ![r] = cur[r]]
      /\ drain' \in [Receivers -> {<<>>} \cup (Nat \X Rounds)]
      /\ link' \in [Receivers -> {"up", "down", "pending", "gone"}]
      /\ conn[r] \in HonestConns(stored[r])
  BY ReceiverState
<1>2. c \in HonestConns(S)
  BY <1>1, AnsweredGood
<1>3. conn' = [conn EXCEPT ![r] = c]
  OBVIOUS
<1> HIDE DEF c
<1> QED
  BY <1>1, <1>2, <1>3, OneReceiver

\* The report of a drain: the section's status, and the completion of the file.
LEMMA RcvReportInv == ASSUME Inv, NEW r \in Receivers, RcvReport(r) PROVE Inv'
<1> DEFINE report(code) == SectionStatus(cur[r], drain[r][1], drain[r][2], code)
           answers(ph, frames) == /\ phase' = [phase EXCEPT ![r] = ph]
                                  /\ conn' = [conn EXCEPT ![r].toProxy =
                                                 IF conn[r].open THEN @ \o frames ELSE @]
<1>1. /\ drain[r] # <<>> /\ drain' = [drain EXCEPT ![r] = <<>>]
      /\ UNCHANGED <<attemptVars, pc, batch, task, info, link, cur, centrals>>
  BY DEF RcvReport
<1>2. drain[r][1] \in Nat /\ drain[r][2] \in Rounds
  <2>1. drain[r] \in {<<>>} \cup (Nat \X Rounds)
    BY ReceiverState
  <2> QED
    BY <1>1, <2>1
<1>3. /\ cur[r] \in Ids /\ stored[r] \in SUBSET (0 .. Files) /\ faults \in 0 .. MaxFaults
      /\ stored = [stored EXCEPT ![r] = stored[r]]
  BY ReceiverState
<1>4. "receiving" \in Phases /\ "shafailed" \in Phases /\ "awaiting" \in Phases
  BY DEF Phases
<1>5. ASSUME NEW code \in {"Missing", "Complete", "Failed"}, NEW S
      PROVE  /\ report(code) \in HonestFrames(S) /\ <<report(code)>> \in Seq(HonestFrames(S))
  BY <1>2, <1>3, AnswerType
<1>6. \/ \E code \in {"Missing", "Complete"} :
            answers("receiving", <<report(code)>>) /\ UNCHANGED <<stored, faults>>
      \/ /\ answers("awaiting", <<report("Complete"), Frame("RECEIVER_COMPLETE", cur[r])>>)
         /\ Commits(r)
      \/ answers("shafailed", <<report("Failed")>>) /\ Corrupt
  BY DEF RcvReport
<1> HIDE DEF report
<1>7. ASSUME NEW code \in {"Missing", "Complete"}, answers("receiving", <<report(code)>>),
             UNCHANGED <<stored, faults>>
      PROVE  Inv'
  <2>1. <<report(code)>> \in Seq(HonestFrames(stored[r]))
    BY <1>5
  <2>2. stored' = [stored EXCEPT ![r] = stored[r]] /\ faults' \in 0 .. MaxFaults
    BY <1>3, <1>7
  <2> QED
    BY <1>1, <1>3, <1>4, <1>7, <2>1, <2>2, AnswersInv
<1>8. CASE /\ answers("awaiting", <<report("Complete"), Frame("RECEIVER_COMPLETE", cur[r])>>)
           /\ Commits(r)
  <2>1. PICK S \in SUBSET (0 .. Files) :
             /\ stored[r] \subseteq S /\ cur[r][1] \in S
             /\ stored' = [stored EXCEPT ![r] = S] /\ faults' \in 0 .. MaxFaults
    BY <1>8, CommitsGood
  <2>2. /\ report("Complete") \in HonestFrames(S)
        /\ Frame("RECEIVER_COMPLETE", cur[r]) \in HonestFrames(S)
    BY <1>3, <1>5, <2>1, AnswerType
  <2>3. <<report("Complete"), Frame("RECEIVER_COMPLETE", cur[r])>> \in Seq(HonestFrames(S))
    BY <2>2
  <2> QED
    BY <1>1, <1>4, <1>8, <2>1, <2>3, AnswersInv
<1>9. CASE answers("shafailed", <<report("Failed")>>) /\ Corrupt
  <2>1. <<report("Failed")>> \in Seq(HonestFrames(stored[r]))
    BY <1>5
  <2>2. stored' = [stored EXCEPT ![r] = stored[r]] /\ faults' \in 0 .. MaxFaults
    BY <1>9, CorruptGood
  <2> QED
    BY <1>1, <1>3, <1>4, <1>9, <2>1, <2>2, AnswersInv
<1> QED
  BY <1>6, <1>7, <1>8, <1>9

------------------------------------------------------------------------------
(* The types, and that what is completed is stored *)

LEMMA InitInv == Init => Inv
<1> SUFFICES ASSUME Init PROVE Inv
  OBVIOUS
<1>1. /\ MaxFaults \in Nat /\ MaxCentrals \in Nat /\ MaxRetries \in Nat
      /\ MaxRepairRounds \in Nat /\ Files \in Nat /\ 1 <= Files
  BY SessionAssumption, FilesIsNat
<1>2. NoId \in Ids /\ OldId \in Ids /\ <<1, 0>> \in Ids
  BY <1>1 DEF Ids
<1>3. /\ info \in [Receivers -> Infos]
      /\ \A r \in Receivers : /\ info[r].state = "Unknown" /\ info[r].completed = FALSE
                              /\ info[r].meta = NoId
  BY <1>2 DEF Init, Infos
<1>4. cur \in [Receivers -> Ids] /\ phase \in [Receivers -> {"idle", "receiving", "awaiting"}]
  BY <1>2 DEF Init
<1>5. /\ stored = [r \in Receivers |-> IF phase[r] = "awaiting" THEN {cur[r][1]} ELSE {}]
      /\ stored \in [Receivers -> SUBSET (0 .. Files)]
  BY <1>4, IdFile DEF Init
<1>6. ASSUME NEW S PROVE Closed(Fresh(<<>>)) \in HonestConns(S) /\ Closed(Fresh(<<>>)) \in Conns
  <2>1. Fresh(<<>>) \in HonestConns(S)
    BY EmptySeq DEF Fresh, HonestConns
  <2> QED
    BY <2>1, ClosedGood, HonestIsConn
<1>7. ConnsGood(conn)
  BY <1>6 DEF Init, ConnsGood
<1>8. InfosGood(info) /\ FlagsGood(info)
  BY <1>3 DEF InfosGood, HonestInfos, FlagsGood, FlagsOf
<1>9. AwaitingIsStored
  BY <1>5 DEF AwaitingIsStored
<1>10. TypeOK
  <2>1. /\ mode \in Modes /\ pc = "register" /\ file \in 1 .. Files /\ attempt \in 0 .. MaxRetries
        /\ section \in Nat /\ round \in Rounds /\ faults \in 0 .. MaxFaults
        /\ centrals \in 0 .. MaxCentrals
    BY <1>1 DEF Init, Rounds
  <2>2. /\ result = "Success" /\ after = "verdict" /\ cached = FALSE
        /\ batch \in Seq(Receivers)
        /\ task \in [Receivers -> {"none", "todo", "waiting", "done"}]
        /\ link \in [Receivers -> {"up", "down", "pending", "gone"}]
        /\ drain \in [Receivers -> {<<>>} \cup (Nat \X Rounds)]
    BY EmptySeq DEF Init
  <2> QED
    BY <1>3, <1>4, <1>5, <1>7, <2>1, <2>2 DEF TypeOK, ConnsGood
<1> QED
  BY <1>7, <1>8, <1>9, <1>10 DEF Inv, Honest

LEMMA NextInv == Inv /\ [Next]_vars => Inv'
<1> SUFFICES ASSUME Inv, [Next]_vars PROVE Inv'
  OBVIOUS
<1>1. CASE UNCHANGED vars
  BY <1>1 DEF vars, attemptVars, rcvVars, Inv, TypeOK, Honest, AwaitingIsStored, InfosGood,
              ConnsGood, FlagsGood, FlagsOf
<1>2. CASE ProxyStep
  <2>1. CASE WaitThrows \/ AllReady \/ Rethrow \/ Retry \/ CentralConnects \/ SessionEndLost
    BY <2>1, QuietSteps
  <2>2. CASE \/ (\E r \in Receivers : Register(r)) \/ Poll \/ ReadNothing \/ ReadMetaReady
             \/ ReadReport \/ ReadReady
    BY <2>2, RegisterInv, PollInv, ReadNothingInv, ReadMetaReadyInv, ReadReportInv, ReadReadyInv
  <2>3. CASE \/ Begin \/ SendSection \/ CollectMismatch \/ CloseSection \/ RepairRound
             \/ RoundsExhausted \/ SectionsEnd \/ CentralFails
    BY <2>3, BeginInv, SendSectionInv, CollectMismatchInv, CloseSectionInv, RepairRoundInv,
       RoundsExhaustedInv, SectionsEndInv, CentralFailsInv
  <2>4. CASE \/ \E r \in Receivers : BackfillSend(r) \/ BackfillRead(r) \/ BackfillGivesUp(r)
             \/ BackfillEnds \/ StatusLost
    BY <2>4, BackfillSendInv, BackfillReadInv, BackfillGivesUpInv, BackfillEndsInv, StatusLostInv
  <2>5. CASE FileEnds \/ CachedFile \/ SessionEnd
    BY <2>5, FileEndsInv, CachedFileInv, SessionEndInv
  <2> QED
    BY <1>2, <2>1, <2>2, <2>3, <2>4, <2>5 DEF ProxyStep
<1>3. ASSUME NEW r \in Receivers, ReceiverStep(r) \/ Break(r) \/ Die(r) PROVE Inv'
  BY <1>3, RcvFrameInv, RcvReportInv, ReconnectInv, LinkLostInv DEF ReceiverStep
<1> QED
  BY <1>1, <1>2, <1>3 DEF Next, Stopped

\* ConfirmedIsStored is inductive only with what the frames and the records say:
\* whatever connection a RECEIVER_COMPLETE or a registration came from, it is about
\* a file its receiver has renamed into place.
THEOREM Invariance == Spec => []Inv
  BY InitInv, NextInv, PTL DEF Spec

\* The shape of the variables.
THEOREM TypeCorrect == Spec => []TypeOK
<1>1. Inv => TypeOK
  BY DEF Inv
<1> QED
  BY <1>1, Invariance, PTL

\* Across broken links, reconnections, retries and central senders that start
\* over, a receiver is counted as completed only when it has stored this file.
THEOREM CompletedIsStored == Spec => []ConfirmedIsStored
<1>1. Inv => ConfirmedIsStored
  BY DEF Inv, Honest, FlagsGood, FlagsOf, ConfirmedIsStored
<1> QED
  BY <1>1, Invariance, PTL

------------------------------------------------------------------------------
(***************************************************************************)
(* The second invariant, behind NoClashFresh and CompletedStays: what is   *)
(* under way between the proxy and each receiver at every step of the      *)
(* proxy.  It is stated of the values i = info[r], c = conn[r],            *)
(* l = link[r], u = cur[r], h = phase[r], d = drain[r], t = task[r] of one *)
(* receiver and of the transfer T the proxy is at.                         *)
(***************************************************************************)

Lacks(q, type, id) == \A f \in Messages(q) : ~(f.type = type /\ f.id = id)
NoMeta(q) == \A f \in Messages(q) : f.type # "FILE_META"
Avoids(q, id) == \A f \in Messages(q) : f.id # id

\* A frame that makes a receiver drop the transfer u it is at.
Drops(f, u, h, d) ==
    /\ f.id = u
    /\ f.type = "TRANSFER_FAILED" \/ (f.type = "COMPLETE_ACK" /\ h = "awaiting" /\ d = <<>>)

\* A FILE_META is alone in its queue, and finds a receiver without a transfer: it has
\* none, or this very one, or a frame before makes it drop the one it has.
Handed(u, h, d, q) ==
    \A i \in 1 .. Len(q) : q[i].type = "FILE_META" =>
        /\ q[i].id # NoId
        /\ \A j \in 1 .. Len(q) : j # i => q[j].type # "FILE_META"
        /\ \A j \in 1 .. i - 1 : q[j].id # q[i].id
        /\ \/ u = NoId
           \/ u = q[i].id /\ i = 1 /\ d = <<>>
           \/ u # q[i].id /\ \E j \in 1 .. i - 1 : Drops(q[j], u, h, d)

Rest(u, h, d) == (h = "idle" <=> u = NoId) /\ (u = NoId => d = <<>>)

\* The receiver has stored the file of transfer id and keeps nothing else.
Finished(u, h, d, q, id) ==
    NoMeta(q) /\ (u = NoId \/ (u = id /\ h = "awaiting" /\ d = <<>>))

\* The receiver is as its record says, or idle.
Matches(i, u, h, d, q) ==
    /\ NoMeta(q)
    /\ \/ u = NoId
       \/ /\ u = i.id /\ i.state \in {"Receiving", "Completed"}
          /\ i.state = "Completed" => h = "awaiting" /\ d = <<>>

\* The receiver has no section of transfer id left to report.
Bare(u, d, q, id) == Lacks(q, "SECTION_END", id) /\ (u = id => d = <<>>)

\* At any time.
Steady(i, c, l, u, h, d) ==
    /\ Rest(u, h, d) /\ Handed(u, h, d, c.toRcv)
    /\ l # "up" => c.toRcv = <<>>
    /\ l \in {"down", "pending"} => d = <<>>
    /\ ~c.open => c.toProxy = <<>>
    /\ i.completed => Finished(u, h, d, c.toRcv, i.meta)

\* Every id in use is one of S.
Within(S, i, c, u) ==
    /\ {u, i.id, i.meta} \subseteq S
    /\ \A f \in Messages(c.toRcv) : f.id \in S
    /\ \A f \in Messages(c.toProxy) : f.id \in S

\* Before transfer T begins: a receiver may hold it from an earlier run of the proxy.
Unbegun(T, i, c, u, h, d) ==
    /\ Avoids(c.toRcv, T) /\ Avoids(c.toProxy, T) /\ i.meta # T
    /\ u = T => c.toRcv = <<>> /\ d = <<>> /\ i.meta = NoId
    /\ i.id = T => c.open
    /\ c.open => Matches(i, u, h, d, c.toRcv)
    /\ i.meta # NoId => i.completed \/ i.abandoned

\* While T is at the step p of send_file_attempt: the proxy's flags ...
Flags(p, T, i, t) ==
    /\ i.meta = T \/ (p = "barrier" /\ i.meta = NoId)
    /\ p = "meta" => ~i.abandoned
    /\ p = "barrier" /\ i.ready => i.meta = NoId \/ i.completed \/ i.abandoned
    /\ t = "todo" => i.isolated

\* ... what the receiver was sent, and what it means that it has answered ...
Way(T, c, u, h, d) ==
    /\ c.open => \A f \in Messages(c.toRcv) : f.type = "FILE_META" => f.id = T
    /\ Lacks(c.toProxy, "RECEIVER_COMPLETE", T) \/ Finished(u, h, d, c.toRcv, T)
    /\ Lacks(c.toProxy, "RECEIVER_READY", T) \/ (u = NoId /\ NoMeta(c.toRcv))

\* ... when its record can be trusted ...
Settled(p, i, c, u, h, d) ==
    c.open /\ (i.abandoned \/ (p = "barrier" /\ i.ready)) => Matches(i, u, h, d, c.toRcv)

\* ... a receiver left to the backfill has nothing else to report ...
Spared(T, i, c, u, d) ==
    i.isolated \/ ~Lacks(c.toRcv, "BACKFILL", T) => Bare(u, d, c.toRcv, T)

\* ... the rounds the receiver knows of, as pairs of a section and a round ...
Numbers(T, c, u, d, N) ==
    /\ Lacks(c.toRcv, "BACKFILL", T)
    /\ \A f \in Messages(c.toRcv) :
          f.type = "SECTION_END" /\ f.id = T => <<f.section, f.round>> \in N
    /\ \A f \in Messages(c.toProxy) :
          f.type = "SECTION_STATUS" /\ f.id = T => <<f.section, f.round>> \in N
    /\ u = T /\ d # <<>> => d \in N

IsEnd(f, T, n) == f.type = "SECTION_END" /\ f.id = T /\ f.section = n[1] /\ f.round = n[2]

\* ... and when it has reported the round n that is collected it has no other left.
Current(T, i, c, u, d, n) ==
    /\ \A x, y \in 1 .. Len(c.toRcv) :
          x < y /\ IsEnd(c.toRcv[x], T, n)
          => ~(c.toRcv[y].type = "SECTION_END" /\ c.toRcv[y].id = T)
    /\ u = T /\ d = n => Lacks(c.toRcv, "SECTION_END", T)
    /\ \A f \in Messages(c.toProxy) :
          f.type = "SECTION_STATUS" /\ f.id = T /\ f.section = n[1] /\ f.round = n[2]
          => Bare(u, d, c.toRcv, T)
    /\ i.status = "Missing" => Bare(u, d, c.toRcv, T)

Underway(p, T, N, n, i, c, u, h, d, t) ==
    /\ Flags(p, T, i, t) /\ Way(T, c, u, h, d) /\ Settled(p, i, c, u, h, d)
    /\ Spared(T, i, c, u, d)
    /\ p \in {"meta", "section", "collect"} => Numbers(T, c, u, d, N)
    /\ p = "collect" => Current(T, i, c, u, d, n)

Begins  == pc \in {"register", "begin"} \/ (pc = "away" /\ centrals = MaxCentrals)
Active  == pc \in {"meta", "section", "collect", "backfill", "barrier"}
Seen == {id \in Ids : id[1] < file \/ (id[1] = file /\ id[2] <= attempt)}
Past == {n \in Nat \X Rounds :
            n[1] < section \/ (pc = "collect" /\ n[1] = section /\ n[2] <= round)}
Now == <<section, round>>

Fits(b, a, p, T, S, N, n, i, c, l, u, h, d, t) ==
    /\ Steady(i, c, l, u, h, d)
    /\ b \/ a => Within(S, i, c, u)
    /\ b => Unbegun(T, i, c, u, h, d)
    /\ a => Underway(p, T, N, n, i, c, u, h, d, t)

FitsAt(r) == Fits(Begins, Active, pc, Tid, Seen, Past, Now,
                  info[r], conn[r], link[r], cur[r], phase[r], drain[r], task[r])

Control ==
    /\ mode = "direct" => pc # "away" /\ after # "rethrow"
    /\ mode = "central" /\ (Active \/ pc \in {"begin", "end"}) => centrals < MaxCentrals
    /\ Begins /\ pc # "begin" => attempt = 0
    /\ IdsAreFresh /\ Begins /\ attempt = 0 => ~cached
    /\ pc # "backfill" => \A r \in Receivers : task[r] # "todo"
    /\ batch # <<>> => pc \in {"meta", "collect", "barrier"}

Orderly == Control /\ (IdsAreFresh => \A r \in Receivers : FitsAt(r))

\* What a receiver does with a frame f, and what it answers.
Meets(f, u, h, d, u2, h2, d2, says) ==
    \/ /\ f.type = "FILE_META" /\ u = f.id /\ u2 = u /\ h2 = h /\ d2 = d
       /\ says = <<Frame(IF h = "awaiting" THEN "RECEIVER_COMPLETE" ELSE "META_READY", u)>>
    \/ /\ f.type = "FILE_META" /\ u = NoId /\ u2 = f.id /\ h2 = "receiving" /\ d2 = <<>>
       /\ says = <<Frame("META_READY", f.id)>>
    \/ /\ f.type = "SECTION_END" /\ u2 = u /\ h2 = h /\ says = <<>>
       /\ d2 = IF u = f.id /\ h = "receiving" THEN <<f.section, f.round>> ELSE d
    \/ /\ f.type # "FILE_META" /\ u2 = u /\ h2 = h /\ d2 = d /\ says = <<>>
       /\ ~Drops(f, u, h, d)
    \/ /\ f.type = "BACKFILL" /\ u = f.id /\ h = "receiving" /\ u2 = u /\ d2 = d
       /\ \/ h2 = "awaiting" /\ says = <<Frame("RECEIVER_COMPLETE", u)>>
          \/ h2 \in {"receiving", "shafailed"} /\ says = <<SectionStatus(u, 0, 0, "Failed")>>
    \/ /\ f.type \in {"COMPLETE_ACK", "TRANSFER_FAILED"} /\ u \in {NoId, f.id}
       /\ u2 = NoId /\ h2 = "idle" /\ d2 = <<>> /\ says = <<Frame("RECEIVER_READY", f.id)>>

LEMMA TailFacts ==
    ASSUME NEW F, NEW q \in Seq(F), q # <<>>
    PROVE  /\ Len(q) \in Nat /\ Len(q) >= 1 /\ Len(Tail(q)) = Len(q) - 1 /\ Tail(q) \in Seq(F)
           /\ Head(q) = q[1] /\ \A i \in 1 .. Len(q) - 1 : Tail(q)[i] = q[i + 1]
           /\ Messages(Tail(q)) \subseteq Messages(q) /\ Head(q) \in Messages(q)
           /\ \A f \in Messages(q) : f = Head(q) \/ f \in Messages(Tail(q))
<1>1. /\ Len(q) \in Nat /\ Len(q) >= 1 /\ Len(Tail(q)) = Len(q) - 1 /\ Tail(q) \in Seq(F)
      /\ Head(q) = q[1] /\ \A i \in 1 .. Len(q) - 1 : Tail(q)[i] = q[i + 1]
  <2>1. Len(q) \in Nat /\ Len(q) # 0
    BY LenProperties, EmptySeq
  <2>2. Tail(q) \in Seq(F) /\ Len(Tail(q)) = Len(q) - 1
    BY HeadTailProperties
  <2>3. \A i \in 1 .. Len(q) - 1 : Tail(q)[i] = q[i + 1]
    BY <2>1, HeadTailProperties
  <2> QED
    BY <2>1, <2>2, <2>3
<1>2. DOMAIN q = 1 .. Len(q) /\ DOMAIN Tail(q) = 1 .. Len(q) - 1
  BY <1>1, LenProperties
<1>3. ASSUME NEW i \in 1 .. Len(q) PROVE i = 1 \/ (i - 1 \in 1 .. Len(q) - 1 /\ q[i] = Tail(q)[i - 1])
  BY <1>1
<1>4. Head(q) \in Messages(q)
  BY <1>1, <1>2 DEF Messages
<1>5. \A i \in 1 .. Len(q) - 1 : i + 1 \in 1 .. Len(q)
  BY <1>1
<1>6. Messages(Tail(q)) \subseteq Messages(q)
  BY <1>1, <1>2, <1>5 DEF Messages
<1>7. ASSUME NEW f \in Messages(q) PROVE f = Head(q) \/ f \in Messages(Tail(q))
  <2>1. PICK i \in 1 .. Len(q) : f = q[i]
    BY <1>2 DEF Messages
  <2> QED
    BY <1>1, <1>2, <1>3, <2>1 DEF Messages
<1> QED
  BY <1>1, <1>4, <1>6, <1>7

LEMMA ConcatFacts ==
    ASSUME NEW F, NEW q \in Seq(F), NEW p \in Seq(F)
    PROVE  /\ Len(q) \in Nat /\ Len(p) \in Nat /\ Len(q \o p) = Len(q) + Len(p) /\ q \o p \in Seq(F)
           /\ \A i \in 1 .. Len(q) : (q \o p)[i] = q[i]
           /\ \A i \in 1 .. Len(p) : (q \o p)[Len(q) + i] = p[i]
           /\ Messages(q \o p) = Messages(q) \cup Messages(p)
<1>1. /\ Len(q) \in Nat /\ Len(p) \in Nat /\ Len(q \o p) = Len(q) + Len(p) /\ q \o p \in Seq(F)
      /\ \A i \in 1 .. Len(q) : (q \o p)[i] = q[i]
      /\ \A i \in 1 .. Len(p) : (q \o p)[Len(q) + i] = p[i]
  <2>1. /\ Len(q) \in Nat /\ Len(p) \in Nat /\ q \o p \in Seq(F) /\ Len(q \o p) = Len(q) + Len(p)
    BY LenProperties, ConcatProperties
  <2>2. \A i \in 1 .. Len(q) + Len(p) : (q \o p)[i] = IF i <= Len(q) THEN q[i] ELSE p[i - Len(q)]
    BY ConcatProperties
  <2> QED
    BY <2>1, <2>2
<1>2. /\ DOMAIN q = 1 .. Len(q) /\ DOMAIN p = 1 .. Len(p) /\ DOMAIN (q \o p) = 1 .. Len(q) + Len(p)
  BY <1>1, LenProperties
<1>3. \A i \in 1 .. Len(q) + Len(p) : i \in 1 .. Len(q) \/ i - Len(q) \in 1 .. Len(p)
  BY <1>1
<1>4. ASSUME NEW i \in 1 .. Len(q) + Len(p)
      PROVE  \/ i \in 1 .. Len(q) /\ (q \o p)[i] = q[i]
             \/ i - Len(q) \in 1 .. Len(p) /\ (q \o p)[i] = p[i - Len(q)]
  BY <1>1, <1>3
<1>5. Messages(q \o p) \subseteq Messages(q) \cup Messages(p)
  BY <1>2, <1>4 DEF Messages
<1>6. Messages(q) \subseteq Messages(q \o p)
  BY <1>1, <1>2 DEF Messages
<1>7. Messages(p) \subseteq Messages(q \o p)
  <2>1. \A i \in 1 .. Len(p) : Len(q) + i \in 1 .. Len(q) + Len(p)
    BY <1>1
  <2> QED
    BY <1>1, <1>2, <2>1 DEF Messages
<1> QED
  BY <1>1, <1>5, <1>6, <1>7

LEMMA NoMessages == Messages(<<>>) = {}
  BY DEF Messages

LEMMA OneMessage == \A f : Messages(<<f>>) = {f}
  BY DEF Messages

LEMMA TwoMessages == \A f, g : Messages(<<f, g>>) = {f, g}
<1> TAKE f, g
<1>1. DOMAIN <<f, g>> = {1, 2}
  OBVIOUS
<1> QED
  BY <1>1 DEF Messages

\* A receiver that was handed a file in order meets the next frame in order.
LEMMA HandedRead ==
    ASSUME NEW u, NEW h, NEW d, NEW u2, NEW h2, NEW d2, NEW says, NEW q \in Seq(RcvFrames),
           q # <<>>, Rest(u, h, d), Handed(u, h, d, q), Meets(Head(q), u, h, d, u2, h2, d2, says)
    PROVE  Rest(u2, h2, d2) /\ Handed(u2, h2, d2, Tail(q))
<1>1. /\ Len(q) \in Nat /\ Len(q) >= 1 /\ Len(Tail(q)) = Len(q) - 1 /\ Head(q) = q[1]
      /\ \A i \in 1 .. Len(q) - 1 : Tail(q)[i] = q[i + 1]
  BY TailFacts
<1>2. 1 \in 1 .. Len(q) /\ (q[1].type = "FILE_META" => q[1].id # NoId)
  BY <1>1 DEF Handed
<1>3. Rest(u2, h2, d2)
  BY <1>1, <1>2 DEF Rest, Meets
<1>4. ASSUME NEW i \in 1 .. Len(Tail(q)), Tail(q)[i].type = "FILE_META"
      PROVE  /\ Tail(q)[i].id # NoId
             /\ \A j \in 1 .. Len(Tail(q)) : j # i => Tail(q)[j].type # "FILE_META"
             /\ \A j \in 1 .. i - 1 : Tail(q)[j].id # Tail(q)[i].id
             /\ \/ u2 = NoId
                \/ u2 = Tail(q)[i].id /\ i = 1 /\ d2 = <<>>
                \/ u2 # Tail(q)[i].id /\ \E j \in 1 .. i - 1 : Drops(Tail(q)[j], u2, h2, d2)
  <2>1. i + 1 \in 1 .. Len(q) /\ i \in 1 .. Len(q) - 1 /\ q[i + 1] = Tail(q)[i] /\ i + 1 # 1
    BY <1>1
  <2>2. /\ q[i + 1].id # NoId
        /\ \A j \in 1 .. Len(q) : j # i + 1 => q[j].type # "FILE_META"
        /\ \A j \in 1 .. i : q[j].id # q[i + 1].id
        /\ \/ u = NoId
           \/ u # q[i + 1].id /\ \E j \in 1 .. i : Drops(q[j], u, h, d)
    BY <1>4, <2>1 DEF Handed
  <2>3. /\ \A j \in 1 .. Len(Tail(q)) : j # i => Tail(q)[j].type # "FILE_META"
        /\ \A j \in 1 .. i - 1 : Tail(q)[j].id # Tail(q)[i].id
    <3>1. \A j \in 1 .. Len(Tail(q)) : j + 1 \in 1 .. Len(q) /\ Tail(q)[j] = q[j + 1]
      BY <1>1
    <3>2. \A j \in 1 .. i - 1 : j + 1 \in 1 .. i /\ j \in 1 .. Len(Tail(q))
      BY <1>1
    <3> QED
      BY <2>1, <2>2, <3>1, <3>2
  <2>4. q[1].type # "FILE_META" /\ 1 \in 1 .. Len(q)
    BY <1>2, <2>1, <2>2
  <2>5. CASE u = NoId
    <3>1. u2 = NoId
      BY <1>1, <2>4, <2>5 DEF Meets
    <3> QED
      BY <2>1, <2>2, <2>3, <3>1
  <2>6. CASE u # NoId
    <3>1. PICK j \in 1 .. i : Drops(q[j], u, h, d)
      BY <2>2, <2>6
    <3>2. CASE j = 1
      <4>1. u2 = NoId
        BY <1>1, <3>1, <3>2 DEF Drops, Meets
      <4> QED
        BY <2>1, <2>2, <2>3, <4>1
    <3>3. CASE j # 1
      <4>1. j - 1 \in 1 .. i - 1 /\ Tail(q)[j - 1] = q[j]
        BY <1>1, <3>3
      <4>2. u2 = NoId \/ (u2 = u /\ Drops(q[j], u2, h2, d2))
        BY <1>1, <2>4, <3>1 DEF Meets, Drops
      <4> QED
        BY <2>1, <2>2, <2>3, <2>6, <4>1, <4>2
    <3> QED
      BY <3>2, <3>3
  <2> QED
    BY <2>5, <2>6
<1> QED
  BY <1>3, <1>4 DEF Handed

\* What is known of a receiver's end stays true when it reads on.
LEMMA KnownRead ==
    ASSUME NEW u, NEW h, NEW d, NEW u2, NEW h2, NEW d2, NEW says, NEW q \in Seq(RcvFrames),
           q # <<>>, Rest(u, h, d), Meets(Head(q), u, h, d, u2, h2, d2, says)
    PROVE  /\ NoMeta(q) => NoMeta(Tail(q)) /\ (u = NoId => u2 = NoId)
           /\ \A id : Finished(u, h, d, q, id) => Finished(u2, h2, d2, Tail(q), id)
           /\ \A i : Matches(i, u, h, d, q) => Matches(i, u2, h2, d2, Tail(q))
           /\ \A id : Bare(u, d, q, id) => Bare(u2, d2, Tail(q), id)
<1>1. /\ Messages(Tail(q)) \subseteq Messages(q) /\ Head(q) \in Messages(q)
  BY TailFacts
<1>2. NoMeta(q) => NoMeta(Tail(q)) /\ Head(q).type # "FILE_META"
  BY <1>1 DEF NoMeta
<1>3. \A id : Finished(u, h, d, q, id) => Finished(u2, h2, d2, Tail(q), id)
  BY <1>2 DEF Finished, Meets, Rest
<1>4. \A i : Matches(i, u, h, d, q) => Matches(i, u2, h2, d2, Tail(q))
  BY <1>2 DEF Matches, Meets, Rest
<1>5. \A id : Lacks(q, "SECTION_END", id) =>
          Lacks(Tail(q), "SECTION_END", id) /\ ~(Head(q).type = "SECTION_END" /\ Head(q).id = id)
  BY <1>1 DEF Lacks
<1>6. \A id : Bare(u, d, q, id) => Bare(u2, d2, Tail(q), id)
  BY <1>5 DEF Bare, Meets
<1>7. NoMeta(q) /\ u = NoId => u2 = NoId
  BY <1>2 DEF Meets
<1> QED
  BY <1>2, <1>3, <1>4, <1>6, <1>7

------------------------------------------------------------------------------
(* A receiver reads a frame *)

\* The FILE_META of a queue is not behind a frame of the same transfer.
LEMMA NoMetaBehind ==
    ASSUME NEW u, NEW h, NEW d, NEW q \in Seq(RcvFrames), q # <<>>, Handed(u, h, d, q),
           \/ Head(q).type = "FILE_META"
           \/ \A f \in Messages(q) : f.type = "FILE_META" => f.id = Head(q).id
    PROVE  NoMeta(Tail(q))
<1>1. /\ Len(q) \in Nat /\ Len(q) >= 1 /\ Len(Tail(q)) = Len(q) - 1 /\ Tail(q) \in Seq(RcvFrames)
      /\ Head(q) = q[1] /\ \A i \in 1 .. Len(q) - 1 : Tail(q)[i] = q[i + 1]
  BY TailFacts
<1>2. DOMAIN q = 1 .. Len(q) /\ DOMAIN Tail(q) = 1 .. Len(q) - 1
  BY <1>1, LenProperties
<1>3. ASSUME NEW i \in 1 .. Len(q) - 1, Tail(q)[i].type = "FILE_META" PROVE FALSE
  <2>1. i + 1 \in 1 .. Len(q) /\ q[i + 1] = Tail(q)[i] /\ i + 1 # 1 /\ 1 \in 1 .. (i + 1) - 1
        /\ 1 \in 1 .. Len(q)
    BY <1>1
  <2>2. q[i + 1].type = "FILE_META" /\ q[i + 1] \in Messages(q)
    BY <1>2, <1>3, <2>1 DEF Messages
  <2>3. q[1].type # "FILE_META" /\ q[1].id # q[i + 1].id
    BY <2>1, <2>2 DEF Handed
  <2> QED
    BY <1>1, <2>2, <2>3
<1> QED
  BY <1>2, <1>3 DEF NoMeta, Messages

\* What a receiver says is about its transfer or that of the frame it met.
LEMMA SaysFacts ==
    ASSUME NEW f, NEW u, NEW h, NEW d, NEW u2, NEW h2, NEW d2, NEW says,
           Meets(f, u, h, d, u2, h2, d2, says)
    PROVE  /\ u2 \in {u, f.id, NoId}
           /\ \A g \in Messages(says) :
                 /\ g.id \in {u, f.id}
                 /\ g.type = "SECTION_STATUS" => g.id = u /\ u = f.id /\ f.type = "BACKFILL"
                 /\ g.type = "RECEIVER_COMPLETE" =>
                       /\ u = f.id /\ u2 = u /\ h2 = "awaiting" /\ d2 = d
                       /\ f.type = "FILE_META" \/ f.type = "BACKFILL"
                 /\ g.type = "RECEIVER_READY" => g.id = f.id /\ u2 = NoId
<1>1. u2 \in {u, f.id, NoId}
  BY DEF Meets
<1>2. ASSUME NEW g \in Messages(says)
      PROVE /\ g.id \in {u, f.id}
            /\ g.type = "SECTION_STATUS" => g.id = u /\ u = f.id /\ f.type = "BACKFILL"
            /\ g.type = "RECEIVER_COMPLETE" =>
                       /\ u = f.id /\ u2 = u /\ h2 = "awaiting" /\ d2 = d
                       /\ f.type = "FILE_META" \/ f.type = "BACKFILL"
            /\ g.type = "RECEIVER_READY" => g.id = f.id /\ u2 = NoId
  <2>1. says # <<>>
    BY <1>2, NoMessages
  <2>2. PICK x : says = <<x>> /\ g = x
    <3>1. \E x : says = <<x>>
      BY <2>1 DEF Meets
    <3> QED
      BY <1>2, <3>1, OneMessage
  <2>3. says[1] = g
    BY <2>2
  <2>4. CASE f.type = "FILE_META" /\ u = f.id /\ u2 = u /\ h2 = h /\ d2 = d
             /\ says = <<Frame(IF h = "awaiting" THEN "RECEIVER_COMPLETE" ELSE "META_READY", u)>>
    <3>1. g = Frame(IF h = "awaiting" THEN "RECEIVER_COMPLETE" ELSE "META_READY", u)
      BY <2>3, <2>4
    <3> QED
      BY <2>4, <3>1 DEF Frame
  <2>5. CASE says = <<Frame("META_READY", f.id)>>
    <3>1. g = Frame("META_READY", f.id)
      BY <2>3, <2>5
    <3> QED
      BY <3>1 DEF Frame
  <2>6. CASE f.type = "BACKFILL" /\ u = f.id /\ u2 = u /\ d2 = d /\ h2 = "awaiting"
             /\ says = <<Frame("RECEIVER_COMPLETE", u)>>
    <3>1. g = Frame("RECEIVER_COMPLETE", u)
      BY <2>3, <2>6
    <3> QED
      BY <2>6, <3>1 DEF Frame
  <2>7. CASE f.type = "BACKFILL" /\ u = f.id /\ says = <<SectionStatus(u, 0, 0, "Failed")>>
    <3>1. g = SectionStatus(u, 0, 0, "Failed")
      BY <2>3, <2>7
    <3> QED
      BY <2>7, <3>1 DEF SectionStatus
  <2>8. CASE u2 = NoId /\ says = <<Frame("RECEIVER_READY", f.id)>>
    <3>1. g = Frame("RECEIVER_READY", f.id)
      BY <2>3, <2>8
    <3> QED
      BY <2>8, <3>1 DEF Frame
  <2> QED
    BY <2>1, <2>4, <2>5, <2>6, <2>7, <2>8 DEF Meets
<1> QED
  BY <1>1, <1>2

\* The frames a receiver's answer adds to those the proxy has still to read.
LEMMA AnswerFacts ==
    ASSUME NEW c \in Conns, NEW c2, NEW says \in Seq(ProxyFrames),
           c2.open = c.open,
           c2.toProxy = IF c.open THEN c.toProxy \o says ELSE c.toProxy
    PROVE  /\ \A f \in Messages(c2.toProxy) :
                 f \in Messages(c.toProxy) \/ (c.open /\ f \in Messages(says))
           /\ ~c.open => c2.toProxy = c.toProxy
<1>1. c.toProxy \in Seq(ProxyFrames)
  BY DEF Conns
<1>2. Messages(c.toProxy \o says) = Messages(c.toProxy) \cup Messages(says)
  BY <1>1, ConcatFacts
<1> QED
  BY <1>2

\* A receiver reads a frame.
LEMMA ReadSteady ==
    ASSUME NEW i, NEW c \in Conns, NEW u, NEW h, NEW d, NEW c2, NEW u2, NEW h2, NEW d2,
           NEW says \in Seq(ProxyFrames), c.toRcv # <<>>,
           Meets(Head(c.toRcv), u, h, d, u2, h2, d2, says),
           c2.open = c.open, c2.toRcv = Tail(c.toRcv),
           c2.toProxy = IF c.open THEN c.toProxy \o says ELSE c.toProxy,
           Steady(i, c, "up", u, h, d)
    PROVE  Steady(i, c2, "up", u2, h2, d2)
<1>1. c.toRcv \in Seq(RcvFrames)
  BY DEF Conns
<1>2. Rest(u, h, d) /\ Handed(u, h, d, c.toRcv)
  BY DEF Steady
<1>3. Rest(u2, h2, d2) /\ Handed(u2, h2, d2, c2.toRcv)
  <2>1. Rest(u2, h2, d2) /\ Handed(u2, h2, d2, Tail(c.toRcv))
    BY <1>1, <1>2, HandedRead
  <2> QED
    BY <2>1
<1>4. i.completed => Finished(u2, h2, d2, c2.toRcv, i.meta)
  BY <1>1, <1>2, KnownRead DEF Steady
<1>5. ~c2.open => c2.toProxy = <<>>
  BY DEF Steady
<1> QED
  BY <1>3, <1>4, <1>5 DEF Steady

LEMMA ReadWithin ==
    ASSUME NEW S, NoId \in S, NEW i, NEW c \in Conns, NEW u, NEW h, NEW d,
           NEW c2, NEW u2, NEW h2, NEW d2, NEW says \in Seq(ProxyFrames), c.toRcv # <<>>,
           Meets(Head(c.toRcv), u, h, d, u2, h2, d2, says),
           c2.open = c.open, c2.toRcv = Tail(c.toRcv),
           c2.toProxy = IF c.open THEN c.toProxy \o says ELSE c.toProxy,
           Within(S, i, c, u)
    PROVE  Within(S, i, c2, u2)
<1>1. c.toRcv \in Seq(RcvFrames)
  BY DEF Conns
<1>2. Messages(c2.toRcv) \subseteq Messages(c.toRcv) /\ Head(c.toRcv) \in Messages(c.toRcv)
  BY <1>1, TailFacts
<1>3. u \in S /\ Head(c.toRcv).id \in S
  BY <1>2 DEF Within
<1>4. u2 \in S /\ \A g \in Messages(says) : g.id \in S
  BY <1>3, SaysFacts
<1>5. \A f \in Messages(c2.toProxy) : f \in Messages(c.toProxy) \/ f \in Messages(says)
  BY AnswerFacts
<1> QED
  BY <1>2, <1>4, <1>5 DEF Within

LEMMA ReadUnbegun ==
    ASSUME NEW T, T # NoId, NEW i, NEW c \in Conns, NEW u, NEW h, NEW d,
           NEW c2, NEW u2, NEW h2, NEW d2, NEW says \in Seq(ProxyFrames), c.toRcv # <<>>,
           Meets(Head(c.toRcv), u, h, d, u2, h2, d2, says),
           c2.open = c.open, c2.toRcv = Tail(c.toRcv),
           c2.toProxy = IF c.open THEN c.toProxy \o says ELSE c.toProxy,
           Rest(u, h, d), Unbegun(T, i, c, u, h, d)
    PROVE  Unbegun(T, i, c2, u2, h2, d2)
<1>1. c.toRcv \in Seq(RcvFrames)
  BY DEF Conns
<1>2. Messages(c2.toRcv) \subseteq Messages(c.toRcv) /\ Head(c.toRcv) \in Messages(c.toRcv)
  BY <1>1, TailFacts
<1>3. u # T /\ Head(c.toRcv).id # T
  BY <1>2 DEF Unbegun, Avoids
<1>4. u2 # T /\ \A g \in Messages(says) : g.id # T
  BY <1>3, SaysFacts
<1>5. \A f \in Messages(c2.toProxy) : f \in Messages(c.toProxy) \/ f \in Messages(says)
  BY AnswerFacts
<1>6. Avoids(c2.toRcv, T) /\ Avoids(c2.toProxy, T)
  BY <1>2, <1>4, <1>5 DEF Unbegun, Avoids
<1>7. c2.open => Matches(i, u2, h2, d2, c2.toRcv)
  BY <1>1, KnownRead DEF Unbegun
<1> QED
  BY <1>4, <1>6, <1>7 DEF Unbegun

LEMMA ReadWay ==
    ASSUME NEW T, T # NoId, NEW i, NEW c \in Conns, NEW u, NEW h, NEW d,
           NEW c2, NEW u2, NEW h2, NEW d2, NEW says \in Seq(ProxyFrames), c.toRcv # <<>>,
           Meets(Head(c.toRcv), u, h, d, u2, h2, d2, says),
           c2.open = c.open, c2.toRcv = Tail(c.toRcv),
           c2.toProxy = IF c.open THEN c.toProxy \o says ELSE c.toProxy,
           Rest(u, h, d), Handed(u, h, d, c.toRcv), Way(T, c, u, h, d), Spared(T, i, c, u, d)
    PROVE  Way(T, c2, u2, h2, d2)
<1> DEFINE q == c.toRcv
           f == Head(q)
<1>1. q \in Seq(RcvFrames) /\ q # <<>>
  BY DEF Conns
<1>2. /\ Messages(c2.toRcv) \subseteq Messages(q) /\ f \in Messages(q) /\ f = q[1]
      /\ 1 \in 1 .. Len(q)
  BY <1>1, TailFacts
<1>3. \A g \in Messages(c2.toProxy) : g \in Messages(c.toProxy) \/ (c.open /\ g \in Messages(says))
  BY AnswerFacts
<1>4. c2.open => \A g \in Messages(c2.toRcv) : g.type = "FILE_META" => g.id = T
  BY <1>2 DEF Way
<1>5. ASSUME NEW g \in Messages(c2.toProxy), g.type = "RECEIVER_COMPLETE", g.id = T
      PROVE  Finished(u2, h2, d2, c2.toRcv, T)
  <2>1. CASE g \in Messages(c.toProxy)
    <3>1. Finished(u, h, d, q, T)
      BY <1>5, <2>1 DEF Way, Lacks
    <3> QED
      BY <1>1, <3>1, KnownRead
  <2>2. CASE c.open /\ g \in Messages(says)
    <3>1. /\ u = f.id /\ u2 = u /\ h2 = "awaiting" /\ d2 = d /\ u = T
          /\ f.type = "FILE_META" \/ f.type = "BACKFILL"
      BY <1>5, <2>2, SaysFacts
    <3>2. NoMeta(Tail(q))
      <4>1. \A x \in Messages(q) : x.type = "FILE_META" => x.id = f.id
        BY <2>2, <3>1 DEF Way
      <4> QED
        BY <1>1, <4>1, NoMetaBehind
    <3>3. d = <<>>
      <4>1. CASE f.type = "FILE_META"
        BY <1>2, <3>1, <4>1 DEF Handed
      <4>2. CASE f.type = "BACKFILL"
        BY <1>2, <3>1, <4>2 DEF Spared, Lacks, Bare
      <4> QED
        BY <3>1, <4>1, <4>2
    <3> QED
      BY <3>1, <3>2, <3>3 DEF Finished
  <2> QED
    BY <1>3, <2>1, <2>2
<1>6. ASSUME NEW g \in Messages(c2.toProxy), g.type = "RECEIVER_READY", g.id = T
      PROVE  u2 = NoId /\ NoMeta(c2.toRcv)
  <2>1. CASE g \in Messages(c.toProxy)
    <3>1. u = NoId /\ NoMeta(q)
      BY <1>6, <2>1 DEF Way, Lacks
    <3>2. NoMeta(Tail(q)) /\ u2 = NoId
      BY <1>1, <3>1, KnownRead
    <3> QED
      BY <3>2
  <2>2. CASE c.open /\ g \in Messages(says)
    <3>1. f.id = T /\ u2 = NoId
      BY <1>6, <2>2, SaysFacts
    <3>2. \A x \in Messages(q) : x.type = "FILE_META" => x.id = f.id
      BY <2>2, <3>1 DEF Way
    <3> QED
      BY <1>1, <3>1, <3>2, NoMetaBehind
  <2> QED
    BY <1>3, <2>1, <2>2
<1> QED
  BY <1>4, <1>5, <1>6 DEF Way, Lacks

LEMMA PairFacts ==
    ASSUME NEW A, NEW B, NEW d \in A \X B
    PROVE  d # <<>> /\ d = <<d[1], d[2]>> /\ d[1] \in A /\ d[2] \in B
<1>1. PICK x \in A, y \in B : d = <<x, y>>
  OBVIOUS
<1>2. d[1] = x /\ d[2] = y
  BY <1>1
<1>3. Len(<<x, y>>) = 2 /\ Len(<<>>) = 0
  OBVIOUS
<1>4. d # <<>>
  BY <1>1, <1>3
<1> QED
  BY <1>1, <1>2, <1>4

LEMMA ReadNumbers ==
    ASSUME NEW T, NEW N, NEW c \in Conns, NEW u, NEW h, NEW d,
           NEW c2, NEW u2, NEW h2, NEW d2, NEW says \in Seq(ProxyFrames), c.toRcv # <<>>,
           Meets(Head(c.toRcv), u, h, d, u2, h2, d2, says),
           c2.open = c.open, c2.toRcv = Tail(c.toRcv),
           c2.toProxy = IF c.open THEN c.toProxy \o says ELSE c.toProxy,
           Rest(u, h, d), Numbers(T, c, u, d, N)
    PROVE  Numbers(T, c2, u2, d2, N)
<1> DEFINE q == c.toRcv
           f == Head(q)
<1>1. q \in Seq(RcvFrames) /\ q # <<>>
  BY DEF Conns
<1>2. Messages(c2.toRcv) \subseteq Messages(q) /\ f \in Messages(q)
  BY <1>1, TailFacts
<1>3. \A g \in Messages(c2.toProxy) : g \in Messages(c.toProxy) \/ g \in Messages(says)
  BY AnswerFacts
<1>4. ASSUME NEW g \in Messages(says), g.type = "SECTION_STATUS", g.id = T PROVE FALSE
  <2>1. f.type = "BACKFILL" /\ f.id = T
    BY <1>4, SaysFacts
  <2> QED
    BY <1>2, <2>1 DEF Numbers, Lacks
<1>5. u2 = T /\ d2 # <<>> => d2 \in N
  <2>1. \/ u2 = u /\ d2 = d
        \/ d2 = <<>>
        \/ u2 = u /\ f.type = "SECTION_END" /\ d2 = IF u = f.id /\ h = "receiving"
                                                    THEN <<f.section, f.round>> ELSE d
    BY DEF Meets
  <2> QED
    BY <1>2, <2>1 DEF Numbers
<1> QED
  BY <1>2, <1>3, <1>4, <1>5 DEF Numbers, Lacks

LEMMA ReadCurrent ==
    ASSUME NEW T, T # NoId, NEW N, NEW n \in Nat \X Nat, NEW i, NEW c \in Conns,
           NEW u, NEW h, NEW d,
           NEW c2, NEW u2, NEW h2, NEW d2, NEW says \in Seq(ProxyFrames), c.toRcv # <<>>,
           Meets(Head(c.toRcv), u, h, d, u2, h2, d2, says),
           c2.open = c.open, c2.toRcv = Tail(c.toRcv),
           c2.toProxy = IF c.open THEN c.toProxy \o says ELSE c.toProxy,
           Rest(u, h, d), Numbers(T, c, u, d, N), Current(T, i, c, u, d, n)
    PROVE  Current(T, i, c2, u2, d2, n)
<1> DEFINE q == c.toRcv
           f == Head(q)
<1>1. q \in Seq(RcvFrames) /\ q # <<>>
  BY DEF Conns
<1>2. /\ Len(q) \in Nat /\ Len(q) >= 1 /\ Len(Tail(q)) = Len(q) - 1 /\ f = q[1]
      /\ Tail(q) \in Seq(RcvFrames)
      /\ \A k \in 1 .. Len(q) - 1 : Tail(q)[k] = q[k + 1]
      /\ Messages(Tail(q)) \subseteq Messages(q) /\ f \in Messages(q)
  BY <1>1, TailFacts
<1>3. DOMAIN Tail(q) = 1 .. Len(q) - 1
  BY <1>2, LenProperties
<1>4. \A x, y \in 1 .. Len(Tail(q)) :
          x < y /\ IsEnd(Tail(q)[x], T, n)
          => ~(Tail(q)[y].type = "SECTION_END" /\ Tail(q)[y].id = T)
  <2> SUFFICES ASSUME NEW x \in 1 .. Len(Tail(q)), NEW y \in 1 .. Len(Tail(q)),
                      x < y, IsEnd(Tail(q)[x], T, n)
               PROVE  ~(Tail(q)[y].type = "SECTION_END" /\ Tail(q)[y].id = T)
    OBVIOUS
  <2>1. x + 1 \in 1 .. Len(q) /\ y + 1 \in 1 .. Len(q) /\ x + 1 < y + 1
        /\ Tail(q)[x] = q[x + 1] /\ Tail(q)[y] = q[y + 1]
    BY <1>2
  <2> QED
    BY <2>1 DEF Current
<1>5. u2 = T /\ d2 = n => Lacks(Tail(q), "SECTION_END", T)
  <2>1. CASE u2 = u /\ d2 = d
    BY <1>2, <2>1 DEF Current, Lacks
  <2>2. CASE d2 = <<>>
    <3>1. n # <<>>
      BY PairFacts
    <3> QED
      BY <2>2, <3>1
  <2>3. CASE u2 = u /\ f.type = "SECTION_END" /\ u = f.id /\ d2 = <<f.section, f.round>>
    <3>1. ASSUME u2 = T, d2 = n, NEW g \in Messages(Tail(q)) PROVE ~(g.type = "SECTION_END" /\ g.id = T)
      <4>1. PICK k \in 1 .. Len(q) - 1 : g = Tail(q)[k]
        BY <1>3, <3>1 DEF Messages
      <4>2. k + 1 \in 1 .. Len(q) /\ 1 \in 1 .. Len(q) /\ 1 < k + 1 /\ g = q[k + 1]
        BY <1>2, <4>1
      <4>3. n[1] = f.section /\ n[2] = f.round
        BY <2>3, <3>1
      <4>4. IsEnd(q[1], T, n)
        BY <1>2, <2>3, <3>1, <4>3 DEF IsEnd
      <4> QED
        BY <4>2, <4>4 DEF Current
    <3> QED
      BY <3>1 DEF Lacks
  <2> QED
    BY <2>1, <2>2, <2>3 DEF Meets
<1>6. \A g \in Messages(c2.toProxy) : g \in Messages(c.toProxy) \/ g \in Messages(says)
  BY AnswerFacts
<1>7. ASSUME NEW g \in Messages(c2.toProxy), g.type = "SECTION_STATUS", g.id = T,
             g.section = n[1], g.round = n[2]
      PROVE  Bare(u2, d2, Tail(q), T)
  <2>1. CASE g \in Messages(c.toProxy)
    <3>1. Bare(u, d, q, T)
      BY <1>7, <2>1 DEF Current
    <3> QED
      BY <1>1, <3>1, KnownRead
  <2>2. CASE g \in Messages(says)
    <3>1. f.type = "BACKFILL" /\ f.id = T
      BY <1>7, <2>2, SaysFacts
    <3> QED
      BY <1>2, <3>1 DEF Numbers, Lacks
  <2> QED
    BY <1>6, <2>1, <2>2
<1>8. i.status = "Missing" => Bare(u2, d2, Tail(q), T)
  BY <1>1, KnownRead DEF Current
<1> QED
  BY <1>4, <1>5, <1>7, <1>8 DEF Current

LEMMA ReadFits ==
    ASSUME NEW b, NEW a, NEW p, NEW T, T # NoId, NEW S, NoId \in S, NEW N, NEW n \in Nat \X Nat,
           NEW i, NEW c \in Conns, NEW u, NEW h, NEW d, NEW t,
           NEW c2, NEW u2, NEW h2, NEW d2, NEW says \in Seq(ProxyFrames), c.toRcv # <<>>,
           Meets(Head(c.toRcv), u, h, d, u2, h2, d2, says),
           c2.open = c.open, c2.toRcv = Tail(c.toRcv),
           c2.toProxy = IF c.open THEN c.toProxy \o says ELSE c.toProxy,
           Fits(b, a, p, T, S, N, n, i, c, "up", u, h, d, t)
    PROVE  Fits(b, a, p, T, S, N, n, i, c2, "up", u2, h2, d2, t)
<1>1. c.toRcv \in Seq(RcvFrames)
  BY DEF Conns
<1>2. Rest(u, h, d) /\ Handed(u, h, d, c.toRcv)
  BY DEF Fits, Steady
<1>3. Steady(i, c2, "up", u2, h2, d2)
  BY ReadSteady DEF Fits
<1>4. b \/ a => Within(S, i, c2, u2)
  BY ReadWithin DEF Fits
<1>5. b => Unbegun(T, i, c2, u2, h2, d2)
  BY <1>2, ReadUnbegun DEF Fits
<1>6. ASSUME Underway(p, T, N, n, i, c, u, h, d, t)
      PROVE  Underway(p, T, N, n, i, c2, u2, h2, d2, t)
  <2>1. Way(T, c2, u2, h2, d2)
    BY <1>2, <1>6, ReadWay DEF Underway
  <2>2. Matches(i, u, h, d, c.toRcv) => Matches(i, u2, h2, d2, c2.toRcv)
    BY <1>1, <1>2, KnownRead
  <2>3. Settled(p, i, c2, u2, h2, d2)
    BY <1>6, <2>2 DEF Underway, Settled
  <2>4. Bare(u, d, c.toRcv, T) => Bare(u2, d2, c2.toRcv, T)
    BY <1>1, <1>2, KnownRead
  <2>5. Messages(c2.toRcv) \subseteq Messages(c.toRcv)
    BY <1>1, TailFacts
  <2>6. Spared(T, i, c2, u2, d2)
    BY <1>6, <2>4, <2>5 DEF Underway, Spared, Lacks
  <2>7. p \in {"meta", "section", "collect"} => Numbers(T, c2, u2, d2, N)
    BY <1>2, <1>6, ReadNumbers DEF Underway
  <2>8. p = "collect" => Current(T, i, c2, u2, d2, n)
    BY <1>2, <1>6, ReadCurrent DEF Underway
  <2> QED
    BY <1>6, <2>1, <2>3, <2>6, <2>7, <2>8 DEF Underway
<1> QED
  BY <1>3, <1>4, <1>5, <1>6 DEF Fits

------------------------------------------------------------------------------
(* A receiver reports a section *)

Reports(u, d, h2, says) ==
    \/ /\ h2 \in {"receiving", "shafailed"}
       /\ \E code \in {"Missing", "Complete", "Failed"} : says = <<SectionStatus(u, d[1], d[2], code)>>
    \/ /\ h2 = "awaiting"
       /\ says = <<SectionStatus(u, d[1], d[2], "Complete"), Frame("RECEIVER_COMPLETE", u)>>

LEMMA ReportFacts ==
    ASSUME NEW u, NEW d, NEW h2, NEW says, Reports(u, d, h2, says)
    PROVE  /\ h2 # "idle"
           /\ \A g \in Messages(says) :
                 /\ g.id = u /\ g.type # "RECEIVER_READY"
                 /\ g.type = "SECTION_STATUS" => g.section = d[1] /\ g.round = d[2]
                 /\ g.type = "RECEIVER_COMPLETE" => h2 = "awaiting"
<1>1. h2 # "idle"
  BY DEF Reports
<1>2. ASSUME NEW g \in Messages(says)
      PROVE  \/ \E code : g = SectionStatus(u, d[1], d[2], code)
             \/ g = Frame("RECEIVER_COMPLETE", u) /\ h2 = "awaiting"
  <2>1. CASE \E code \in {"Missing", "Complete", "Failed"} : says = <<SectionStatus(u, d[1], d[2], code)>>
    <3>1. PICK code : says = <<SectionStatus(u, d[1], d[2], code)>>
      BY <2>1
    <3>2. Messages(says) = {SectionStatus(u, d[1], d[2], code)}
      BY <3>1, OneMessage
    <3> QED
      BY <1>2, <3>2
  <2>2. CASE /\ h2 = "awaiting"
             /\ says = <<SectionStatus(u, d[1], d[2], "Complete"), Frame("RECEIVER_COMPLETE", u)>>
    <3>1. Messages(says) = {SectionStatus(u, d[1], d[2], "Complete"), Frame("RECEIVER_COMPLETE", u)}
      BY <2>2, TwoMessages
    <3> QED
      BY <1>2, <2>2, <3>1
  <2> QED
    BY <2>1, <2>2 DEF Reports
<1>3. ASSUME NEW g \in Messages(says)
      PROVE  /\ g.id = u /\ g.type # "RECEIVER_READY"
             /\ g.type = "SECTION_STATUS" => g.section = d[1] /\ g.round = d[2]
             /\ g.type = "RECEIVER_COMPLETE" => h2 = "awaiting"
  <2>1. CASE \E code : g = SectionStatus(u, d[1], d[2], code)
    <3>1. g.id = u /\ g.type = "SECTION_STATUS" /\ g.section = d[1] /\ g.round = d[2]
      BY <2>1 DEF SectionStatus
    <3> QED
      BY <3>1
  <2>2. CASE g = Frame("RECEIVER_COMPLETE", u) /\ h2 = "awaiting"
    <3>1. g.id = u /\ g.type = "RECEIVER_COMPLETE"
      BY <2>2 DEF Frame
    <3> QED
      BY <2>2, <3>1
  <2> QED
    BY <1>2, <1>3, <2>1, <2>2
<1> QED
  BY <1>1, <1>3

LEMMA ReportFits ==
    ASSUME NEW b, NEW a, NEW p, NEW T, NEW S, NEW N, NEW n \in Nat \X Nat,
           NEW i, NEW c \in Conns, NEW u, NEW h, NEW d \in Nat \X Rounds, NEW t,
           NEW c2, NEW h2, NEW says \in Seq(ProxyFrames), Reports(u, d, h2, says),
           c2.open = c.open, c2.toRcv = c.toRcv,
           c2.toProxy = IF c.open THEN c.toProxy \o says ELSE c.toProxy,
           Fits(b, a, p, T, S, N, n, i, c, "up", u, h, d, t)
    PROVE  Fits(b, a, p, T, S, N, n, i, c2, "up", u, h2, <<>>, t)
<1> DEFINE q == c.toRcv
<1>1. /\ d # <<>> /\ d = <<d[1], d[2]>> /\ n # <<>> /\ n = <<n[1], n[2]>>
  BY PairFacts
<1>2. Rest(u, h, d) /\ Handed(u, h, d, q) /\ u # NoId
  BY <1>1 DEF Fits, Steady, Rest
<1>3. /\ h2 # "idle"
      /\ \A g \in Messages(says) :
            /\ g.id = u /\ g.type # "RECEIVER_READY"
            /\ g.type = "SECTION_STATUS" => g.section = d[1] /\ g.round = d[2]
            /\ g.type = "RECEIVER_COMPLETE" => h2 = "awaiting"
  BY ReportFacts
<1>4. \A g \in Messages(c2.toProxy) : g \in Messages(c.toProxy) \/ (c.open /\ g \in Messages(says))
  BY AnswerFacts
<1>5. Steady(i, c2, "up", u, h2, <<>>)
  <2>1. Rest(u, h2, <<>>)
    BY <1>2, <1>3 DEF Rest
  <2>2. Handed(u, h2, <<>>, q)
    BY <1>1, <1>2 DEF Handed, Drops
  <2>3. ~i.completed
    BY <1>1, <1>2 DEF Fits, Steady, Finished
  <2>4. ~c2.open => c2.toProxy = <<>>
    BY DEF Fits, Steady
  <2> QED
    BY <2>1, <2>2, <2>3, <2>4 DEF Steady
<1>6. b \/ a => Within(S, i, c2, u)
  BY <1>3, <1>4 DEF Fits, Within
<1>7. Matches(i, u, h, d, q) => Matches(i, u, h2, <<>>, q)
  BY <1>1, <1>2 DEF Matches
<1>8. ASSUME Unbegun(T, i, c, u, h, d) PROVE Unbegun(T, i, c2, u, h2, <<>>)
  <2>1. u # T
    BY <1>1, <1>8 DEF Unbegun
  <2>2. Avoids(c2.toProxy, T)
    BY <1>3, <1>4, <1>8, <2>1 DEF Unbegun, Avoids
  <2> QED
    BY <1>7, <1>8, <2>1, <2>2 DEF Unbegun
<1>9. ASSUME Underway(p, T, N, n, i, c, u, h, d, t)
      PROVE  Underway(p, T, N, n, i, c2, u, h2, <<>>, t)
  <2>1. Way(T, c2, u, h2, <<>>)
    <3>1. c2.open => \A f \in Messages(c2.toRcv) : f.type = "FILE_META" => f.id = T
      BY <1>9 DEF Underway, Way
    <3>2. /\ Lacks(c.toProxy, "RECEIVER_COMPLETE", T) /\ Lacks(c.toProxy, "RECEIVER_READY", T)
      BY <1>1, <1>2, <1>9 DEF Underway, Way, Finished
    <3>3. Lacks(c2.toProxy, "RECEIVER_READY", T)
      BY <1>3, <1>4, <3>2 DEF Lacks
    <3>4. ASSUME NEW g \in Messages(c2.toProxy), g.type = "RECEIVER_COMPLETE", g.id = T
          PROVE  Finished(u, h2, <<>>, q, T)
      <4>1. c.open /\ g \in Messages(says)
        BY <1>4, <3>2, <3>4 DEF Lacks
      <4>2. h2 = "awaiting" /\ u = T
        BY <1>3, <3>4, <4>1
      <4>3. NoMeta(q)
        <5>1. DOMAIN q = 1 .. Len(q)
          BY LenProperties DEF Conns
        <5>2. ASSUME NEW k \in 1 .. Len(q), q[k].type = "FILE_META" PROVE FALSE
          <6>1. q[k].id = T
            BY <1>9, <4>1, <5>1, <5>2 DEF Underway, Way, Messages
          <6> QED
            BY <1>1, <1>2, <4>2, <5>2, <6>1 DEF Handed
        <5> QED
          BY <5>1, <5>2 DEF NoMeta, Messages
      <4> QED
        BY <4>2, <4>3 DEF Finished
    <3> QED
      BY <3>1, <3>3, <3>4 DEF Way, Lacks
  <2>2. Settled(p, i, c2, u, h2, <<>>)
    BY <1>7, <1>9 DEF Underway, Settled
  <2>3. Bare(u, d, q, T) => Bare(u, <<>>, q, T)
    BY DEF Bare
  <2>4. Spared(T, i, c2, u, <<>>)
    BY <1>9, <2>3 DEF Underway, Spared
  <2>5. ASSUME Numbers(T, c, u, d, N) PROVE Numbers(T, c2, u, <<>>, N)
    BY <1>1, <1>3, <1>4, <2>5 DEF Numbers
  <2>6. ASSUME Current(T, i, c, u, d, n) PROVE Current(T, i, c2, u, <<>>, n)
    <3>1. ASSUME NEW g \in Messages(c2.toProxy), g.type = "SECTION_STATUS", g.id = T,
                 g.section = n[1], g.round = n[2]
          PROVE  Bare(u, <<>>, q, T)
      <4>1. CASE g \in Messages(c.toProxy)
        BY <2>3, <2>6, <3>1, <4>1 DEF Current
      <4>2. CASE g \in Messages(says)
        <5>1. u = T /\ d[1] = n[1] /\ d[2] = n[2]
          BY <1>3, <3>1, <4>2
        <5>2. d = n
          BY <1>1, <5>1
        <5> QED
          BY <2>6, <5>1, <5>2 DEF Current, Bare
      <4> QED
        BY <1>4, <3>1, <4>1, <4>2
    <3> QED
      BY <1>1, <2>3, <2>6, <3>1 DEF Current
  <2> QED
    BY <1>9, <2>1, <2>2, <2>4, <2>5, <2>6 DEF Underway
<1> QED
  BY <1>5, <1>6, <1>8, <1>9 DEF Fits

------------------------------------------------------------------------------
(* A receiver loses its connection, and a connection loses frames *)

LEMMA EmptyFacts ==
    /\ \A id : Avoids(<<>>, id)
    /\ NoMeta(<<>>) /\ \A type, id : Lacks(<<>>, type, id)
    /\ \A u, h, d : Handed(u, h, d, <<>>)
<1>1. Len(<<>>) = 0 /\ 1 .. 0 = {}
  OBVIOUS
<1> QED
  BY <1>1, NoMessages DEF NoMeta, Lacks, Handed, Avoids

LEMMA LosesFits ==
    ASSUME NEW b, NEW a, NEW p, NEW T, T # NoId, NEW S, NoId \in S, NEW N, NEW n,
           NEW i, NEW c, NEW l, NEW u, NEW h, NEW d, NEW t, NEW c2, NEW l2, NEW u2, NEW h2, NEW d2,
           (u2 = u /\ h2 = h) \/ (u2 = NoId /\ h2 = "idle" /\ d2 = <<>>),
           d2 = <<>> \/ (d2 = d /\ l2 = "gone"), l2 # "up",
           c2.open = c.open, c2.toRcv = <<>>, Messages(c2.toProxy) \subseteq Messages(c.toProxy),
           ~c2.open => c2.toProxy = <<>>,
           Fits(b, a, p, T, S, N, n, i, c, l, u, h, d, t)
    PROVE  Fits(b, a, p, T, S, N, n, i, c2, l2, u2, h2, d2, t)
<1> USE EmptyFacts
<1>1. Rest(u2, h2, d2)
  BY DEF Fits, Steady, Rest
<1>2. \A id : Finished(u, h, d, c.toRcv, id) => Finished(u2, h2, d2, <<>>, id)
  BY DEF Finished
<1>3. Matches(i, u, h, d, c.toRcv) => Matches(i, u2, h2, d2, <<>>)
  BY DEF Matches
<1>4. Bare(u, d, c.toRcv, T) => Bare(u2, d2, <<>>, T)
  BY DEF Bare
<1>5. Steady(i, c2, l2, u2, h2, d2)
  BY <1>1, <1>2 DEF Fits, Steady
<1>6. b \/ a => Within(S, i, c2, u2)
  BY NoMessages DEF Fits, Within
<1>7. ASSUME Unbegun(T, i, c, u, h, d) PROVE Unbegun(T, i, c2, u2, h2, d2)
  <2>1. Avoids(c2.toRcv, T) /\ Avoids(c2.toProxy, T)
    BY <1>7 DEF Unbegun, Avoids
  <2>2. u2 = T => d2 = <<>>
    BY <1>7 DEF Unbegun
  <2> QED
    BY <1>3, <1>7, <2>1, <2>2 DEF Unbegun
<1>8. ASSUME Underway(p, T, N, n, i, c, u, h, d, t)
      PROVE  Underway(p, T, N, n, i, c2, u2, h2, d2, t)
  <2>1. Way(T, c2, u2, h2, d2)
    <3>1. Lacks(c.toProxy, "RECEIVER_COMPLETE", T) => Lacks(c2.toProxy, "RECEIVER_COMPLETE", T)
      BY DEF Lacks
    <3>2. Lacks(c.toProxy, "RECEIVER_READY", T) => Lacks(c2.toProxy, "RECEIVER_READY", T)
      BY DEF Lacks
    <3> QED
      BY <1>2, <1>8, <3>1, <3>2, NoMessages DEF Underway, Way
  <2>2. Settled(p, i, c2, u2, h2, d2)
    BY <1>3, <1>8 DEF Underway, Settled
  <2>3. Spared(T, i, c2, u2, d2)
    BY <1>4, <1>8 DEF Underway, Spared
  <2>4. ASSUME Numbers(T, c, u, d, N) PROVE Numbers(T, c2, u2, d2, N)
    BY <2>4, NoMessages DEF Numbers
  <2>5. ASSUME Current(T, i, c, u, d, n) PROVE Current(T, i, c2, u2, d2, n)
    <3>1. 1 .. Len(c2.toRcv) = {}
      OBVIOUS
    <3> QED
      BY <1>4, <2>5, <3>1 DEF Current
  <2> QED
    BY <1>8, <2>1, <2>2, <2>3, <2>4, <2>5 DEF Underway
<1> QED
  BY <1>5, <1>6, <1>7, <1>8 DEF Fits

\* The proxy has read a frame, or has closed its end.
LEMMA WeakenFits ==
    ASSUME NEW b, NEW a, NEW p, NEW T, NEW S, NEW N, NEW n,
           NEW i, NEW c, NEW l, NEW u, NEW h, NEW d, NEW t, NEW c2,
           c2.open => c.open, b => c2.open = c.open, c2.toRcv = c.toRcv,
           Messages(c2.toProxy) \subseteq Messages(c.toProxy), ~c2.open => c2.toProxy = <<>>,
           Fits(b, a, p, T, S, N, n, i, c, l, u, h, d, t)
    PROVE  Fits(b, a, p, T, S, N, n, i, c2, l, u, h, d, t)
<1>1. Steady(i, c2, l, u, h, d)
  BY DEF Fits, Steady
<1>2. b \/ a => Within(S, i, c2, u)
  BY DEF Fits, Within
<1>3. b => Unbegun(T, i, c2, u, h, d)
  BY DEF Fits, Unbegun, Avoids
<1>4. ASSUME Underway(p, T, N, n, i, c, u, h, d, t)
      PROVE  Underway(p, T, N, n, i, c2, u, h, d, t)
  <2>1. Way(T, c2, u, h, d)
    BY <1>4 DEF Underway, Way, Lacks
  <2>2. Settled(p, i, c2, u, h, d)
    BY <1>4 DEF Underway, Settled
  <2>3. Spared(T, i, c2, u, d)
    BY <1>4 DEF Underway, Spared
  <2>4. Numbers(T, c, u, d, N) => Numbers(T, c2, u, d, N)
    BY DEF Numbers
  <2>5. Current(T, i, c, u, d, n) => Current(T, i, c2, u, d, n)
    BY DEF Current
  <2> QED
    BY <1>4, <2>1, <2>2, <2>3, <2>4, <2>5 DEF Underway
<1> QED
  BY <1>1, <1>2, <1>3, <1>4 DEF Fits

------------------------------------------------------------------------------
(* The proxy sends a frame *)

\* A frame that may be sent while T is under way, apart from SECTION_END and the
\* FILE_META a transfer begins with.
Plain(f, p, T, S, u, d, q) ==
    /\ f \in RcvFrames /\ f.type \notin {"FILE_META", "SECTION_END"} /\ f.id \in S
    /\ f.type = "BACKFILL" => p = "backfill" /\ Bare(u, d, q, T)

LEMMA AppendFacts ==
    ASSUME NEW q \in Seq(RcvFrames), NEW f \in RcvFrames
    PROVE  /\ q \o <<f>> \in Seq(RcvFrames) /\ Len(q) \in Nat /\ Len(q \o <<f>>) = Len(q) + 1
           /\ \A k \in 1 .. Len(q) : (q \o <<f>>)[k] = q[k]
           /\ (q \o <<f>>)[Len(q) + 1] = f
           /\ Messages(q \o <<f>>) = Messages(q) \cup {f}
<1>1. <<f>> \in Seq(RcvFrames) /\ Len(<<f>>) = 1 /\ <<f>>[1] = f
  OBVIOUS
<1>2. Messages(<<f>>) = {f}
  BY OneMessage
<1>3. 1 \in 1 .. Len(<<f>>)
  BY <1>1
<1>4. /\ q \o <<f>> \in Seq(RcvFrames) /\ Len(q) \in Nat /\ Len(q \o <<f>>) = Len(q) + 1
      /\ \A k \in 1 .. Len(q) : (q \o <<f>>)[k] = q[k]
  BY <1>1, ConcatFacts
<1>5. (q \o <<f>>)[Len(q) + 1] = f
  BY <1>1, <1>3, ConcatFacts
<1>6. Messages(q \o <<f>>) = Messages(q) \cup {f}
  <2>1. Messages(q \o <<f>>) = Messages(q) \cup Messages(<<f>>)
    BY <1>1, ConcatFacts
  <2> QED
    BY <1>2, <2>1
<1> QED
  BY <1>4, <1>5, <1>6

LEMMA HandedMore ==
    ASSUME NEW u, NEW h, NEW d, NEW q \in Seq(RcvFrames), NEW f \in RcvFrames,
           f.type # "FILE_META", Handed(u, h, d, q)
    PROVE  Handed(u, h, d, q \o <<f>>)
<1> DEFINE q2 == q \o <<f>>
<1>1. /\ Len(q) \in Nat /\ Len(q2) = Len(q) + 1
      /\ \A k \in 1 .. Len(q) : q2[k] = q[k]
      /\ q2[Len(q) + 1] = f
  BY AppendFacts
<1> HIDE DEF q2
<1>2. ASSUME NEW k \in 1 .. Len(q2) PROVE k = Len(q) + 1 \/ (k \in 1 .. Len(q) /\ q2[k] = q[k])
  BY <1>1
<1>3. ASSUME NEW k \in 1 .. Len(q2), q2[k].type = "FILE_META"
      PROVE  /\ q2[k].id # NoId
             /\ \A j \in 1 .. Len(q2) : j # k => q2[j].type # "FILE_META"
             /\ \A j \in 1 .. k - 1 : q2[j].id # q2[k].id
             /\ \/ u = NoId
                \/ u = q2[k].id /\ k = 1 /\ d = <<>>
                \/ u # q2[k].id /\ \E j \in 1 .. k - 1 : Drops(q2[j], u, h, d)
  <2>1. k \in 1 .. Len(q) /\ q2[k] = q[k]
    BY <1>1, <1>2, <1>3
  <2>2. \A j \in 1 .. k - 1 : j \in 1 .. Len(q) /\ q2[j] = q[j]
    BY <1>1, <2>1
  <2>3. /\ q[k].id # NoId
        /\ \A j \in 1 .. Len(q) : j # k => q[j].type # "FILE_META"
        /\ \A j \in 1 .. k - 1 : q[j].id # q[k].id
        /\ \/ u = NoId
           \/ u = q[k].id /\ k = 1 /\ d = <<>>
           \/ u # q[k].id /\ \E j \in 1 .. k - 1 : Drops(q[j], u, h, d)
    BY <1>3, <2>1 DEF Handed
  <2>4. \A j \in 1 .. Len(q2) : j # k => q2[j].type # "FILE_META"
    BY <1>1, <1>2, <2>3
  <2> QED
    BY <2>1, <2>2, <2>3, <2>4
<1> QED
  BY <1>3 DEF Handed, q2

LEMMA MoreKnown ==
    ASSUME NEW q \in Seq(RcvFrames), NEW f \in RcvFrames, f.type # "FILE_META"
    PROVE  /\ \A u, h, d, id : Finished(u, h, d, q, id) => Finished(u, h, d, q \o <<f>>, id)
           /\ \A i, u, h, d : Matches(i, u, h, d, q) => Matches(i, u, h, d, q \o <<f>>)
           /\ NoMeta(q) => NoMeta(q \o <<f>>)
           /\ f.type # "SECTION_END" =>
                 \A u, d, id : Bare(u, d, q, id) => Bare(u, d, q \o <<f>>, id)
<1>1. Messages(q \o <<f>>) = Messages(q) \cup {f}
  BY AppendFacts
<1>2. NoMeta(q) => NoMeta(q \o <<f>>)
  BY <1>1 DEF NoMeta
<1>3. ASSUME f.type # "SECTION_END", NEW id, Lacks(q, "SECTION_END", id)
      PROVE  Lacks(q \o <<f>>, "SECTION_END", id)
  BY <1>1, <1>3 DEF Lacks
<1> QED
  BY <1>2, <1>3 DEF Finished, Matches, Bare

LEMMA AppendFits ==
    ASSUME NEW a, NEW p, NEW T, NEW S, NEW N, NEW n,
           NEW i, NEW c \in Conns, NEW u, NEW h, NEW d, NEW t, NEW c2, NEW f,
           Plain(f, p, T, S, u, d, c.toRcv), c.open,
           c2.open, c2.toRcv = c.toRcv \o <<f>>, c2.toProxy = c.toProxy,
           Fits(FALSE, a, p, T, S, N, n, i, c, "up", u, h, d, t)
    PROVE  Fits(FALSE, a, p, T, S, N, n, i, c2, "up", u, h, d, t)
<1> DEFINE q == c.toRcv
           q2 == c2.toRcv
<1>1. q \in Seq(RcvFrames) /\ f \in RcvFrames /\ f.type # "FILE_META" /\ f.type # "SECTION_END"
  BY DEF Conns, Plain
<1>2. /\ Len(q) \in Nat /\ Len(q2) = Len(q) + 1 /\ \A k \in 1 .. Len(q) : q2[k] = q[k]
      /\ q2[Len(q) + 1] = f /\ Messages(q2) = Messages(q) \cup {f}
  BY <1>1, AppendFacts
<1>3. /\ \A id : Finished(u, h, d, q, id) => Finished(u, h, d, q2, id)
      /\ Matches(i, u, h, d, q) => Matches(i, u, h, d, q2)
      /\ NoMeta(q) => NoMeta(q2)
      /\ Bare(u, d, q, T) => Bare(u, d, q2, T)
  BY <1>1, MoreKnown
<1>4. Steady(i, c2, "up", u, h, d)
  <2>1. Handed(u, h, d, q2)
    BY <1>1, HandedMore DEF Fits, Steady
  <2> QED
    BY <1>3, <2>1 DEF Fits, Steady
<1>5. a => Within(S, i, c2, u)
  BY <1>2 DEF Fits, Within, Plain
<1>6. ASSUME Underway(p, T, N, n, i, c, u, h, d, t)
      PROVE  Underway(p, T, N, n, i, c2, u, h, d, t)
  <2>1. Way(T, c2, u, h, d)
    BY <1>1, <1>2, <1>3, <1>6 DEF Underway, Way
  <2>2. Settled(p, i, c2, u, h, d)
    BY <1>3, <1>6 DEF Underway, Settled
  <2>3. Spared(T, i, c2, u, d)
    BY <1>2, <1>3, <1>6 DEF Underway, Spared, Lacks, Plain
  <2>4. ASSUME p \in {"meta", "section", "collect"}, Numbers(T, c, u, d, N)
        PROVE  Numbers(T, c2, u, d, N)
    <3>1. f.type # "BACKFILL"
      BY <2>4 DEF Plain
    <3> QED
      BY <1>1, <1>2, <2>4, <3>1 DEF Numbers, Lacks
  <2>5. ASSUME Current(T, i, c, u, d, n) PROVE Current(T, i, c2, u, d, n)
    <3>1. \A x, y \in 1 .. Len(q2) :
              x < y /\ IsEnd(q2[x], T, n) => ~(q2[y].type = "SECTION_END" /\ q2[y].id = T)
      <4>1. \A k \in 1 .. Len(q2) : k = Len(q) + 1 \/ (k \in 1 .. Len(q) /\ q2[k] = q[k])
        BY <1>2
      <4> QED
        BY <1>1, <1>2, <2>5, <4>1 DEF Current, IsEnd
    <3>2. Lacks(q, "SECTION_END", T) => Lacks(q2, "SECTION_END", T)
      BY <1>1, <1>2 DEF Lacks
    <3> QED
      BY <1>3, <2>5, <3>1, <3>2 DEF Current
  <2> QED
    BY <1>6, <2>1, <2>2, <2>3, <2>4, <2>5 DEF Underway
<1> QED
  BY <1>4, <1>5, <1>6 DEF Fits

\* send_receiver_frame with one frame, or none.
LEMMA SentFits ==
    ASSUME NEW a, NEW p, NEW T, NEW S, NEW N, NEW n,
           NEW i, NEW c \in Conns, NEW l, NEW u, NEW h, NEW d, NEW t,
           NEW frames, frames = <<>> \/ \E f : frames = <<f>> /\ Plain(f, p, T, S, u, d, c.toRcv),
           NEW fails, Fits(FALSE, a, p, T, S, N, n, i, c, l, u, h, d, t)
    PROVE  Fits(FALSE, a, p, T, S, N, n, i, Sent(c, l = "up", frames, fails), l, u, h, d, t)
<1> DEFINE c2 == Sent(c, l = "up", frames, fails)
<1> SUFFICES Fits(FALSE, a, p, T, S, N, n, i, c2, l, u, h, d, t)
  OBVIOUS
<1>1. \/ c2 = c
      \/ c2 = Closed(c)
      \/ c.open /\ l = "up" /\ c2 = [c EXCEPT !.toRcv = @ \o frames]
  BY DEF Sent
<1> HIDE DEF c2
<1>2. CASE c2 = c
  BY <1>2
<1>3. CASE c2 = Closed(c)
  <2>1. ~c2.open /\ c2.toRcv = c.toRcv /\ c2.toProxy = <<>>
    BY <1>3 DEF Closed, Conns
  <2>2. Messages(c2.toProxy) \subseteq Messages(c.toProxy)
    BY <2>1, NoMessages
  <2> QED
    BY <2>1, <2>2, WeakenFits
<1>4. CASE c.open /\ l = "up" /\ c2 = [c EXCEPT !.toRcv = @ \o frames]
  <2>1. c2.open = c.open /\ c2.toRcv = c.toRcv \o frames /\ c2.toProxy = c.toProxy
    BY <1>4 DEF Conns
  <2>2. CASE frames = <<>>
    <3>1. c.toRcv \o <<>> = c.toRcv
      BY ConcatEmptySeq DEF Conns
    <3>2. c2.toRcv = c.toRcv
      BY <2>1, <2>2, <3>1
    <3>3. c2.open /\ c.open /\ Messages(c2.toProxy) \subseteq Messages(c.toProxy)
      BY <1>4, <2>1
    <3> QED
      BY <3>2, <3>3, WeakenFits
  <2>3. ASSUME NEW f, frames = <<f>>, Plain(f, p, T, S, u, d, c.toRcv)
        PROVE  Fits(FALSE, a, p, T, S, N, n, i, c2, l, u, h, d, t)
    <3>1. c2.open /\ c2.toRcv = c.toRcv \o <<f>>
      BY <1>4, <2>1, <2>3
    <3>2. Fits(FALSE, a, p, T, S, N, n, i, c, "up", u, h, d, t)
      BY <1>4
    <3>3. Fits(FALSE, a, p, T, S, N, n, i, c2, "up", u, h, d, t)
      BY <1>4, <2>1, <2>3, <3>1, <3>2, AppendFits
    <3> QED
      BY <1>4, <3>3
  <2> QED
    BY <2>2, <2>3
<1> QED
  BY <1>1, <1>2, <1>3, <1>4

------------------------------------------------------------------------------
(* Registrations *)

RegOf(u, h) ==
    [state |-> CASE h = "idle"     -> "Idle"
                 [] h = "awaiting" -> "Completed"
                 [] OTHER          -> "Receiving",
     id |-> u]

LEMMA RegOfFacts ==
    ASSUME NEW u, NEW h
    PROVE  /\ RegOf(u, h).id = u /\ RegOf(u, h).state \in {"Idle", "Completed", "Receiving"}
           /\ RegOf(u, h).state = "Idle" <=> h = "idle"
           /\ RegOf(u, h).state = "Completed" <=> h = "awaiting"
  BY DEF RegOf

\* The three ways a registration is taken.
Taken(i, reg, i2, frames) ==
    /\ i2.state = reg.state /\ i2.id = reg.id /\ i2.meta = i.meta
    /\ i2.completed = i.completed /\ i2.abandoned = i.abandoned
    /\ i2.isolated = i.isolated /\ i2.status = i.status
    /\ \/ i.meta = NoId /\ frames = <<>> /\ i2.ready = i.ready
       \/ i.meta # NoId /\ i.completed /\ frames = <<>>
       \/ i.meta # NoId /\ i.abandoned /\ (frames = <<>> \/ frames = <<Frame("TRANSFER_FAILED", i.meta)>>)
    /\ i2.ready => i.ready \/ reg.state = "Idle"
Recovered(i, reg, i2, frames) ==
    /\ i.meta # NoId /\ reg.state = "Completed" /\ reg.id = i.meta
    /\ i2.state = reg.state /\ i2.id = reg.id /\ i2.meta = i.meta
    /\ i2.completed /\ ~i2.abandoned /\ i2.isolated = i.isolated /\ i2.status = i.status
    /\ frames = <<Frame("COMPLETE_ACK", i.meta)>>
Reopened(i, reg, i2, frames) ==
    /\ i.meta # NoId /\ ~(reg.state = "Completed" /\ reg.id = i.meta)
    /\ ~(i.completed /\ reg.state = "Idle") /\ ~i.abandoned
    /\ i2.id = i.meta /\ i2.meta = i.meta /\ ~i2.completed /\ ~i2.abandoned /\ ~i2.ready
    /\ ~i2.isolated /\ i2.status = "NO_REPORT"
    /\ frames = (IF reg.id = i.meta THEN <<>> ELSE Stale(reg.state, reg.id))
                \o <<Frame("FILE_META", i.meta)>>

LEMMA InstallWays ==
    ASSUME NEW i \in Infos, NEW reg
    PROVE  \/ Taken(i, reg, Installed(i, reg), InstallFrames(i, reg))
           \/ Recovered(i, reg, Installed(i, reg), InstallFrames(i, reg))
           \/ Reopened(i, reg, Installed(i, reg), InstallFrames(i, reg))
<1>1. CASE i.meta = NoId
  <2>1. Installed(i, reg) = Known(i, reg) /\ InstallFrames(i, reg) = <<>>
    BY <1>1 DEF Installed, InstallFrames, RecoversCompletion, IsReopened, IsRefused
  <2> QED
    BY <1>1, <2>1 DEF Known, Taken, Infos
<1>2. CASE i.meta # NoId /\ RecoversCompletion(i, reg)
  <2>1. /\ Installed(i, reg) = [Known(i, reg) EXCEPT !.abandoned = FALSE, !.metaReady = TRUE,
                                                     !.completed = TRUE]
        /\ InstallFrames(i, reg) = <<Frame("COMPLETE_ACK", i.meta)>>
    BY <1>2 DEF Installed, InstallFrames, IsReopened, IsRefused
  <2> QED
    BY <1>2, <2>1 DEF Known, Recovered, RecoversCompletion, Infos
<1>3. CASE i.meta # NoId /\ ~RecoversCompletion(i, reg) /\ IsReopened(i, reg)
  <2>1. /\ Installed(i, reg) =
              [i EXCEPT !.metaReady = FALSE, !.completed = FALSE, !.ready = FALSE,
                        !.isolated = FALSE, !.status = "NO_REPORT",
                        !.state = "Receiving", !.id = i.meta]
        /\ InstallFrames(i, reg) = (IF reg.id = i.meta THEN <<>> ELSE Stale(reg.state, reg.id))
                                   \o <<Frame("FILE_META", i.meta)>>
    <3>1. ~IsRefused(i, reg)
      BY <1>3 DEF IsReopened, IsRefused
    <3> QED
      BY <1>3, <3>1 DEF Installed, InstallFrames
  <2>2. ~i.abandoned /\ ~(i.completed /\ reg.state = "Idle")
    BY <1>3 DEF IsReopened, IsReset
  <2> QED
    BY <1>3, <2>1, <2>2 DEF Reopened, RecoversCompletion, Infos
<1>4. CASE i.meta # NoId /\ ~RecoversCompletion(i, reg) /\ ~IsReopened(i, reg)
  <2>1. Installed(i, reg) = [Known(i, reg) EXCEPT !.ready = @ \/ reg.state = "Idle"]
    BY <1>4 DEF Installed
  <2>2. InstallFrames(i, reg) = IF IsRefused(i, reg) THEN <<Frame("TRANSFER_FAILED", i.meta)>>
                                ELSE <<>>
    BY <1>4 DEF InstallFrames
  <2>3. (i.completed /\ InstallFrames(i, reg) = <<>>) \/ i.abandoned
    BY <1>4, <2>2 DEF IsReopened, IsReset, IsRefused
  <2> QED
    BY <1>4, <2>1, <2>2, <2>3 DEF Known, Taken, Infos
<1> QED
  BY <1>1, <1>2, <1>3, <1>4

\* A queue without sections and a receiver without a report.
LEMMA NothingToReport ==
    ASSUME NEW T, NEW N, NEW n \in Nat \X Nat, NEW i, NEW c, NEW u, c.toRcv \in Seq(RcvFrames),
           \A f \in Messages(c.toRcv) : f.type \notin {"SECTION_END", "BACKFILL"},
           c.toProxy = <<>>
    PROVE  /\ Spared(T, i, c, u, <<>>) /\ Numbers(T, c, u, <<>>, N)
           /\ Current(T, i, c, u, <<>>, n)
<1>1. DOMAIN c.toRcv = 1 .. Len(c.toRcv)
  BY LenProperties
<1>2. Lacks(c.toRcv, "SECTION_END", T) /\ Lacks(c.toRcv, "BACKFILL", T)
  BY DEF Lacks
<1>3. Bare(u, <<>>, c.toRcv, T)
  BY <1>2 DEF Bare
<1>4. Spared(T, i, c, u, <<>>) /\ Numbers(T, c, u, <<>>, N)
  BY <1>2, <1>3, NoMessages DEF Spared, Numbers
<1>5. \A x, y \in 1 .. Len(c.toRcv) :
          x < y /\ IsEnd(c.toRcv[x], T, n)
          => ~(c.toRcv[y].type = "SECTION_END" /\ c.toRcv[y].id = T)
  BY <1>1 DEF Messages
<1>6. Current(T, i, c, u, <<>>, n)
  BY <1>2, <1>3, <1>5, NoMessages DEF Current
<1> QED
  BY <1>4, <1>6

\* The frames of a registration that reopens a transfer.
ReopenFrames(u, h, m) ==
    (IF u = m THEN <<>> ELSE Stale(RegOf(u, h).state, u)) \o <<Frame("FILE_META", m)>>

LEMMA StaleWays ==
    ASSUME NEW u, NEW h, u # NoId, h # "idle"
    PROVE  \/ h = "awaiting" /\ Stale(RegOf(u, h).state, u) = <<Frame("COMPLETE_ACK", u)>>
           \/ h # "awaiting" /\ Stale(RegOf(u, h).state, u) = <<Frame("TRANSFER_FAILED", u)>>
  BY RegOfFacts DEF Stale

LEMMA FrameFacts ==
    ASSUME NEW type, NEW id
    PROVE  Frame(type, id).type = type /\ Frame(type, id).id = id
  BY DEF Frame

\* One frame that ends the transfer at hand, or none, and then the FILE_META.
LEMMA HandedMeta ==
    ASSUME NEW u, NEW h, NEW d, NEW m, m # NoId, NEW q \in Seq(RcvFrames), NoMeta(q),
           Frame("FILE_META", m) \in RcvFrames, Avoids(q, m),
           \/ u = NoId
           \/ u = m /\ q = <<>> /\ d = <<>>
           \/ u # m /\ \E f \in Messages(q) : Drops(f, u, h, d)
    PROVE  /\ Handed(u, h, d, q \o <<Frame("FILE_META", m)>>)
           /\ Messages(q \o <<Frame("FILE_META", m)>>) = Messages(q) \cup {Frame("FILE_META", m)}
<1> DEFINE g == Frame("FILE_META", m)
           q2 == q \o <<g>>
<1>1. /\ Len(q) \in Nat /\ Len(q2) = Len(q) + 1 /\ \A k \in 1 .. Len(q) : q2[k] = q[k]
      /\ q2[Len(q) + 1] = g /\ Messages(q2) = Messages(q) \cup {g}
  BY AppendFacts
<1>2. g.type = "FILE_META" /\ g.id = m
  BY FrameFacts
<1>3. DOMAIN q = 1 .. Len(q)
  BY LenProperties
<1> HIDE DEF q2, g
<1>4. \A k \in 1 .. Len(q) : /\ q2[k].type # "FILE_META" /\ q2[k].id # m
                             /\ q2[k] \in Messages(q)
  <2>1. \A k \in 1 .. Len(q) : q2[k] \in Messages(q)
    BY <1>1, <1>3 DEF Messages
  <2> QED
    BY <2>1 DEF NoMeta, Avoids
<1>5. ASSUME NEW k \in 1 .. Len(q2), q2[k].type = "FILE_META"
      PROVE  k = Len(q) + 1
  BY <1>1, <1>4, <1>5
<1>6. \/ u = NoId
      \/ u = m /\ Len(q) + 1 = 1 /\ d = <<>>
      \/ u # m /\ \E j \in 1 .. Len(q) : Drops(q2[j], u, h, d)
  <2>1. CASE u = m /\ q = <<>> /\ d = <<>>
    BY <2>1
  <2>2. CASE u # m /\ \E f \in Messages(q) : Drops(f, u, h, d)
    <3>1. PICK j \in 1 .. Len(q) : Drops(q[j], u, h, d)
      BY <1>3, <2>2 DEF Messages
    <3> QED
      BY <1>1, <2>2, <3>1
  <2> QED
    BY <2>1, <2>2
<1>7. Handed(u, h, d, q2)
  <2>1. \A j \in 1 .. Len(q2) : j # Len(q) + 1 => j \in 1 .. Len(q)
    BY <1>1
  <2>2. 1 .. (Len(q) + 1) - 1 = 1 .. Len(q)
    BY <1>1
  <2> SUFFICES ASSUME NEW k \in 1 .. Len(q2), q2[k].type = "FILE_META"
               PROVE /\ q2[k].id # NoId
                     /\ \A j \in 1 .. Len(q2) : j # k => q2[j].type # "FILE_META"
                     /\ \A j \in 1 .. k - 1 : q2[j].id # q2[k].id
                     /\ \/ u = NoId
                        \/ u = q2[k].id /\ k = 1 /\ d = <<>>
                        \/ u # q2[k].id /\ \E j \in 1 .. k - 1 : Drops(q2[j], u, h, d)
    BY DEF Handed
  <2>3. k = Len(q) + 1 /\ q2[k].id = m /\ 1 .. k - 1 = 1 .. Len(q)
    BY <1>1, <1>2, <1>5, <2>2
  <2> QED
    BY <1>4, <1>6, <2>1, <2>3
<1> QED
  BY <1>1, <1>7 DEF g, q2

LEMMA ReopenFacts ==
    ASSUME NEW u \in Ids, NEW h, h = "idle" <=> u = NoId, NEW m \in Ids, m # NoId
    PROVE  /\ ReopenFrames(u, h, m) \in Seq(RcvFrames)
           /\ Handed(u, h, <<>>, ReopenFrames(u, h, m))
           /\ \A f \in Messages(ReopenFrames(u, h, m)) :
                 /\ f.id \in {u, m} /\ f.type \in {"COMPLETE_ACK", "TRANSFER_FAILED", "FILE_META"}
                 /\ f.type = "FILE_META" => f.id = m
<1> DEFINE q == IF u = m THEN <<>> ELSE Stale(RegOf(u, h).state, u)
           g == Frame("FILE_META", m)
<1>1. g \in RcvFrames /\ g.type = "FILE_META" /\ g.id = m
  BY FrameType, FrameFacts
<1>2. /\ q \in Seq(RcvFrames)
      /\ \A f \in Messages(q) : f.id = u /\ f.type \in {"COMPLETE_ACK", "TRANSFER_FAILED"}
      /\ u # m \/ q = <<>>
      /\ u = NoId \/ u = m \/ \E f \in Messages(q) : Drops(f, u, h, <<>>)
  <2>1. CASE u = m
    BY <2>1, EmptySeq, NoMessages
  <2>2. CASE u # m /\ u = NoId
    <3>1. Stale(RegOf(u, h).state, u) = <<>>
      BY <2>2, RegOfFacts DEF Stale
    <3> QED
      BY <2>2, <3>1, EmptySeq, NoMessages
  <2>3. CASE u # m /\ u # NoId
    <3>1. PICK type \in {"COMPLETE_ACK", "TRANSFER_FAILED"} :
            q = <<Frame(type, u)>> /\ (type = "COMPLETE_ACK" => h = "awaiting")
      BY <2>3, StaleWays
    <3>2. Messages(q) = {Frame(type, u)} /\ q \in Seq(RcvFrames)
      BY <3>1, OneMessage, FrameType
    <3>3. Frame(type, u).type = type /\ Frame(type, u).id = u
      BY FrameFacts
    <3>4. Drops(Frame(type, u), u, h, <<>>)
      BY <3>1, <3>3 DEF Drops
    <3> QED
      BY <2>3, <3>2, <3>3, <3>4
  <2> QED
    BY <2>1, <2>2, <2>3
<1>3. ReopenFrames(u, h, m) = q \o <<g>>
  BY DEF ReopenFrames
<1> HIDE DEF q
<1>4. NoMeta(q) /\ Avoids(q, m)
  BY <1>2, NoMessages DEF NoMeta, Avoids
<1>5. Handed(u, h, <<>>, q \o <<g>>) /\ Messages(q \o <<g>>) = Messages(q) \cup {g}
  BY <1>1, <1>2, <1>4, HandedMeta
<1>6. q \o <<g>> \in Seq(RcvFrames)
  BY <1>1, <1>2, AppendFacts
<1> QED
  BY <1>1, <1>2, <1>3, <1>5, <1>6

\* A registration is accepted.
LEMMA InstallFits ==
    ASSUME NEW b, NEW a, NEW p, NEW T \in Ids, NEW S, NoId \in S, NEW N, NEW n \in Nat \X Nat,
           NEW i \in Infos, NEW c \in Conns, NEW u \in Ids, NEW h, NEW d, NEW t, t # "todo",
           Fits(b, a, p, T, S, N, n, i, c, "pending", u, h, d, t)
    PROVE  Fits(b, a, p, T, S, N, n, Installed(i, RegOf(u, h)), Fresh(InstallFrames(i, RegOf(u, h))),
                "up", u, h, d, t)
<1> DEFINE reg == RegOf(u, h)
           i2 == Installed(i, reg)
           q2 == InstallFrames(i, reg)
           c2 == Fresh(q2)
<1> SUFFICES Fits(b, a, p, T, S, N, n, i2, c2, "up", u, h, d, t)
  OBVIOUS
<1>1. /\ reg.id = u /\ reg.state \in {"Idle", "Completed", "Receiving"}
      /\ reg.state = "Idle" <=> h = "idle"
      /\ reg.state = "Completed" <=> h = "awaiting"
  BY RegOfFacts
<1>2. Taken(i, reg, i2, q2) \/ Recovered(i, reg, i2, q2) \/ Reopened(i, reg, i2, q2)
  BY InstallWays
<1>3. c2.open /\ c2.toRcv = q2 /\ c2.toProxy = <<>>
  BY DEF Fresh
<1>4. d = <<>> /\ Rest(u, h, <<>>) /\ (h = "idle" <=> u = NoId)
  BY DEF Fits, Steady, Rest
<1>5. i.completed => u = NoId \/ (u = i.meta /\ h = "awaiting")
  BY DEF Fits, Steady, Finished
<1>6. i.meta \in Ids
  BY DEF Infos
<1> HIDE DEF reg, i2, q2, c2
<1>7. CASE Taken(i, reg, i2, q2) \/ Recovered(i, reg, i2, q2)
  <2>1. /\ q2 \in Seq(RcvFrames)
        /\ \A f \in Messages(q2) : /\ f.id = i.meta
                                   /\ f.type \in {"COMPLETE_ACK", "TRANSFER_FAILED"}
        /\ i.meta = NoId => q2 = <<>>
    <3>1. CASE q2 = <<>>
      BY <3>1, EmptySeq, NoMessages
    <3>2. ASSUME NEW type \in {"COMPLETE_ACK", "TRANSFER_FAILED"}, q2 = <<Frame(type, i.meta)>>,
                 i.meta # NoId
          PROVE  /\ q2 \in Seq(RcvFrames)
                 /\ \A f \in Messages(q2) : /\ f.id = i.meta
                                            /\ f.type \in {"COMPLETE_ACK", "TRANSFER_FAILED"}
                 /\ i.meta = NoId => q2 = <<>>
      BY <1>6, <3>2, FrameType, FrameFacts, OneMessage
    <3> QED
      BY <1>7, <3>1, <3>2 DEF Taken, Recovered
  <2>2. NoMeta(q2) /\ Handed(u, h, <<>>, q2)
    <3>1. DOMAIN q2 = 1 .. Len(q2)
      BY <2>1, LenProperties
    <3> QED
      BY <2>1, <3>1 DEF NoMeta, Handed, Messages
  <2>3. i2.meta = i.meta /\ i2.id = u /\ i2.state = reg.state /\ i2.isolated = i.isolated
    BY <1>1, <1>7 DEF Taken, Recovered
  <2>4. Matches(i2, u, h, <<>>, q2)
    BY <1>1, <1>4, <2>2, <2>3 DEF Matches
  <2>5. i2.completed => Finished(u, h, <<>>, q2, i2.meta)
    BY <1>1, <1>5, <1>7, <2>2, <2>3 DEF Taken, Recovered, Finished
  <2>6. Steady(i2, c2, "up", u, h, <<>>)
    BY <1>3, <1>4, <2>2, <2>5 DEF Steady
  <2>7. Within(S, i, c, u) => Within(S, i2, c2, u)
    BY <1>3, <2>1, <2>3, NoMessages DEF Within
  <2>8. Unbegun(T, i, c, u, h, d) => Unbegun(T, i2, c2, u, h, <<>>)
    <3> SUFFICES ASSUME Unbegun(T, i, c, u, h, d) PROVE Unbegun(T, i2, c2, u, h, <<>>)
      OBVIOUS
    <3>1. i.meta # T /\ (u = T => i.meta = NoId)
      BY DEF Unbegun
    <3>2. Avoids(q2, T) /\ Avoids(<<>>, T)
      BY <2>1, <3>1, EmptyFacts DEF Avoids
    <3>3. i2.meta # NoId => i2.completed \/ i2.abandoned
      BY <1>7, <2>3 DEF Taken, Recovered, Unbegun
    <3> QED
      BY <1>3, <2>1, <2>3, <2>4, <3>1, <3>2, <3>3 DEF Unbegun
  <2>9. ASSUME Underway(p, T, N, n, i, c, u, h, d, t)
        PROVE  Underway(p, T, N, n, i2, c2, u, h, <<>>, t)
    <3>1. Flags(p, T, i2, t)
      <4>1. i.meta = T \/ (p = "barrier" /\ i.meta = NoId)
        BY <2>9 DEF Underway, Flags
      <4>2. p = "meta" => ~i2.abandoned
        BY <1>7, <2>9 DEF Underway, Flags, Taken, Recovered
      <4>3. i2.meta = NoId \/ i2.completed \/ i2.abandoned
        BY <1>7, <2>3 DEF Taken, Recovered
      <4> QED
        BY <2>3, <4>1, <4>2, <4>3 DEF Flags
    <3>2. Way(T, c2, u, h, <<>>)
      BY <1>3, <2>2, EmptyFacts DEF Way, NoMeta
    <3>3. Settled(p, i2, c2, u, h, <<>>)
      BY <1>3, <2>4 DEF Settled
    <3>4. Spared(T, i2, c2, u, <<>>) /\ Numbers(T, c2, u, <<>>, N) /\ Current(T, i2, c2, u, <<>>, n)
      BY <1>3, <2>1, NothingToReport
    <3> QED
      BY <3>1, <3>2, <3>3, <3>4 DEF Underway
  <2> QED
    BY <1>4, <2>6, <2>7, <2>8, <2>9 DEF Fits
<1>8. CASE Reopened(i, reg, i2, q2)
  <2>1. /\ q2 = ReopenFrames(u, h, i.meta) /\ i.meta # NoId
        /\ i2.id = i.meta /\ i2.meta = i.meta /\ ~i2.completed /\ ~i2.abandoned /\ ~i2.ready
        /\ ~i2.isolated /\ ~i.abandoned
    BY <1>1, <1>8 DEF Reopened, ReopenFrames, reg
  <2>2. /\ q2 \in Seq(RcvFrames) /\ Handed(u, h, <<>>, q2)
        /\ \A f \in Messages(q2) :
              /\ f.id \in {u, i.meta}
              /\ f.type \in {"COMPLETE_ACK", "TRANSFER_FAILED", "FILE_META"}
              /\ f.type = "FILE_META" => f.id = i.meta
    <3>1. h = "idle" <=> u = NoId
      BY <1>4
    <3> QED
      BY <1>6, <2>1, <3>1, ReopenFacts
  <2>3. Steady(i2, c2, "up", u, h, <<>>)
    BY <1>3, <1>4, <2>1, <2>2 DEF Steady
  <2>4. Within(S, i, c, u) => Within(S, i2, c2, u)
    BY <1>3, <2>1, <2>2, NoMessages DEF Within
  <2>5. ~Unbegun(T, i, c, u, h, d)
    BY <1>1, <1>4, <1>5, <1>8, <2>1 DEF Unbegun, Reopened
  <2>6. ASSUME Underway(p, T, N, n, i, c, u, h, d, t)
        PROVE  Underway(p, T, N, n, i2, c2, u, h, <<>>, t)
    <3>1. i.meta = T
      BY <2>1, <2>6 DEF Underway, Flags
    <3>2. Flags(p, T, i2, t)
      BY <2>1, <3>1 DEF Flags
    <3>3. Way(T, c2, u, h, <<>>)
      BY <1>3, <2>2, <3>1, EmptyFacts DEF Way
    <3>4. Settled(p, i2, c2, u, h, <<>>)
      BY <2>1 DEF Settled
    <3>5. Spared(T, i2, c2, u, <<>>) /\ Numbers(T, c2, u, <<>>, N) /\ Current(T, i2, c2, u, <<>>, n)
      BY <1>3, <2>2, NothingToReport
    <3> QED
      BY <3>2, <3>3, <3>4, <3>5 DEF Underway
  <2> QED
    BY <1>4, <2>3, <2>4, <2>5, <2>6 DEF Fits
<1> QED
  BY <1>2, <1>7, <1>8

------------------------------------------------------------------------------
(* An attempt begins *)

LEMMA BeginFits ==
    ASSUME TypeOK, NEW S, NoId \in S, Tid \in S, NEW N, NEW n \in Nat \X Nat,
           NEW i \in Infos, NEW c \in Conns, NEW l, NEW u \in Ids, NEW h, NEW d, NEW t, t # "todo",
           NEW p, NEW fails,
           Fits(TRUE, FALSE, p, Tid, S, N, n, i, c, l, u, h, d, t)
    PROVE  Fits(FALSE, TRUE, "meta", Tid, S, N, n, Begun(i),
                Sent(c, l = "up", BeginFrames(i), fails), l, u, h, d, t)
<1> DEFINE i2 == Begun(i)
           c2 == Sent(c, l = "up", BeginFrames(i), fails)
           done == i.state = "Completed" /\ i.id = Tid
           g == Frame("FILE_META", Tid)
           stale == IF i.id = Tid THEN <<>> ELSE Stale(i.state, i.id)
<1> SUFFICES Fits(FALSE, TRUE, "meta", Tid, S, N, n, i2, c2, l, u, h, d, t)
  OBVIOUS
<1>1. Tid \in Ids /\ Tid # NoId
  BY TidType
<1>2. /\ i2.completed = done /\ ~i2.ready /\ ~i2.isolated /\ ~i2.abandoned
      /\ i2.id = Tid /\ i2.meta = Tid
  BY DEF Begun
<1>3. BeginFrames(i) = IF done THEN <<Frame("COMPLETE_ACK", Tid)>> ELSE stale \o <<g>>
  BY DEF BeginFrames
<1>4. c.toRcv \in Seq(RcvFrames) /\ c.toProxy \in Seq(ProxyFrames) /\ c.open \in BOOLEAN
  BY DEF Conns
<1>5. /\ Steady(i, c, l, u, h, d) /\ Within(S, i, c, u) /\ Unbegun(Tid, i, c, u, h, d)
      /\ Rest(u, h, d)
  BY DEF Fits, Steady
<1>6. c.open => Matches(i, u, h, d, c.toRcv)
  BY <1>5 DEF Unbegun
<1>7. g \in RcvFrames /\ g.type = "FILE_META" /\ g.id = Tid
  BY <1>1, FrameType, FrameFacts
<1>8. /\ stale \in Seq(RcvFrames)
      /\ \A f \in Messages(stale) :
            /\ f.id = i.id /\ i.id # Tid /\ f.type \in {"COMPLETE_ACK", "TRANSFER_FAILED"}
            /\ f.type = "COMPLETE_ACK" => i.state = "Completed"
      /\ i.id # Tid /\ i.state \in {"Receiving", "Completed"} => \E f \in Messages(stale) : TRUE
  <2>1. i.id \in Ids
    BY DEF Infos
  <2>2. CASE stale = <<>>
    <3>1. ~(i.id # Tid /\ i.state \in {"Receiving", "Completed"})
      <4>1. \A type : <<Frame(type, i.id)>> # <<>>
        OBVIOUS
      <4> QED
        BY <2>2, <4>1 DEF Stale
    <3> QED
      BY <2>2, <3>1, EmptySeq, NoMessages
  <2>3. ASSUME NEW type \in {"COMPLETE_ACK", "TRANSFER_FAILED"}, stale = <<Frame(type, i.id)>>,
               i.id # Tid, type = "COMPLETE_ACK" => i.state = "Completed"
        PROVE  /\ stale \in Seq(RcvFrames)
               /\ \A f \in Messages(stale) :
                     /\ f.id = i.id /\ i.id # Tid /\ f.type \in {"COMPLETE_ACK", "TRANSFER_FAILED"}
                     /\ f.type = "COMPLETE_ACK" => i.state = "Completed"
               /\ \E f \in Messages(stale) : TRUE
    <3>1. stale \in Seq(RcvFrames)
      BY <2>1, <2>3, FrameType
    <3>2. Messages(stale) = {Frame(type, i.id)}
      BY <2>3, OneMessage
    <3>3. Frame(type, i.id).type = type /\ Frame(type, i.id).id = i.id
      BY FrameFacts
    <3> QED
      BY <2>3, <3>1, <3>2, <3>3
  <2>4. \/ stale = <<>>
        \/ i.id # Tid /\ i.state = "Completed" /\ stale = <<Frame("COMPLETE_ACK", i.id)>>
        \/ i.id # Tid /\ i.state = "Receiving" /\ stale = <<Frame("TRANSFER_FAILED", i.id)>>
    BY DEF Stale
  <2> QED
    BY <2>2, <2>3, <2>4
<1> HIDE DEF stale, g
<1>9. \/ c2 = c \/ c2 = Closed(c)
      \/ c.open /\ l = "up" /\ c2 = [c EXCEPT !.toRcv = @ \o BeginFrames(i)]
  BY DEF Sent
<1>10. /\ c2.open => c.open
       /\ c2.toProxy = c.toProxy \/ c2.toProxy = <<>>
       /\ ~c2.open => c2.toProxy = <<>>
       /\ \/ c2.toRcv = c.toRcv
          \/ c.open /\ l = "up" /\ c2.toRcv = c.toRcv \o BeginFrames(i)
  <2>1. CASE c2 = c
    BY <1>5, <2>1 DEF Steady
  <2>2. CASE c2 = Closed(c)
    BY <2>2 DEF Closed, Conns
  <2>3. CASE c.open /\ l = "up" /\ c2 = [c EXCEPT !.toRcv = @ \o BeginFrames(i)]
    <3>1. c2.open = c.open /\ c2.toProxy = c.toProxy /\ c2.toRcv = c.toRcv \o BeginFrames(i)
      BY <2>3 DEF Conns
    <3> QED
      BY <2>3, <3>1
  <2> QED
    BY <1>9, <2>1, <2>2, <2>3
<1> HIDE DEF i2, c2
<1>11. Avoids(c2.toProxy, Tid)
  BY <1>5, <1>10, EmptyFacts DEF Unbegun
<1>12. \/ c2.toRcv = c.toRcv
       \/ done /\ c.open /\ l = "up" /\ c2.toRcv = c.toRcv \o <<Frame("COMPLETE_ACK", Tid)>>
       \/ ~done /\ c.open /\ l = "up" /\ c2.toRcv = (c.toRcv \o stale) \o <<g>>
  <2>1. c.toRcv \o (stale \o <<g>>) = (c.toRcv \o stale) \o <<g>>
    <3>1. <<g>> \in Seq(RcvFrames)
      BY <1>7
    <3>2. stale \in Seq(RcvFrames)
      BY <1>8
    <3>3. \A s, s2, s3 \in Seq(RcvFrames) : (s \o s2) \o s3 = s \o (s2 \o s3)
      BY ConcatAssociative
    <3> QED
      BY <1>4, <3>1, <3>2, <3>3
  <2> QED
    BY <1>3, <1>10, <2>1
<1>13. done => c.open /\ Finished(u, h, d, c.toRcv, Tid)
  BY <1>5, <1>6 DEF Unbegun, Matches, Finished
<1>14. /\ Handed(u, h, d, c2.toRcv)
       /\ done => Finished(u, h, d, c2.toRcv, Tid)
       /\ l # "up" => c2.toRcv = <<>>
       /\ \A f \in Messages(c2.toRcv) :
             \/ f \in Messages(c.toRcv)
             \/ /\ f.id \in {i.id, Tid}
                /\ f.type \in {"COMPLETE_ACK", "TRANSFER_FAILED", "FILE_META"}
                /\ f.type = "FILE_META" => f.id = Tid
  <2>1. CASE c2.toRcv = c.toRcv
    BY <1>5, <1>13, <2>1 DEF Steady
  <2>2. CASE done /\ c.open /\ l = "up" /\ c2.toRcv = c.toRcv \o <<Frame("COMPLETE_ACK", Tid)>>
    <3> DEFINE f == Frame("COMPLETE_ACK", Tid)
    <3>1. f \in RcvFrames /\ f.type = "COMPLETE_ACK" /\ f.id = Tid
      BY <1>1, FrameType, FrameFacts
    <3> HIDE DEF f
    <3>2. Messages(c.toRcv \o <<f>>) = Messages(c.toRcv) \cup {f}
      BY <1>4, <3>1, AppendFacts
    <3>3. Handed(u, h, d, c.toRcv \o <<f>>)
      BY <1>4, <1>5, <3>1, HandedMore DEF Steady
    <3>4. Finished(u, h, d, c.toRcv \o <<f>>, Tid)
      BY <1>4, <1>13, <2>2, <3>1, MoreKnown
    <3>5. c2.toRcv = c.toRcv \o <<f>>
      BY <2>2 DEF f
    <3> QED
      BY <2>2, <3>1, <3>2, <3>3, <3>4, <3>5
  <2>3. CASE ~done /\ c.open /\ l = "up" /\ c2.toRcv = (c.toRcv \o stale) \o <<g>>
    <3> DEFINE q == c.toRcv \o stale
    <3>1. q \in Seq(RcvFrames) /\ Messages(q) = Messages(c.toRcv) \cup Messages(stale)
      BY <1>4, <1>8, ConcatFacts
    <3>2. NoMeta(q) /\ Avoids(q, Tid)
      BY <1>5, <1>6, <1>8, <2>3, <3>1 DEF NoMeta, Avoids, Matches, Unbegun
    <3>3. \/ u = NoId
          \/ u = Tid /\ q = <<>> /\ d = <<>>
          \/ u # Tid /\ \E f \in Messages(q) : Drops(f, u, h, d)
      <4>1. CASE u = Tid
        <5>1. c.toRcv = <<>> /\ d = <<>> /\ u = i.id
          BY <1>1, <1>5, <1>6, <2>3, <4>1 DEF Unbegun, Matches
        <5>2. stale = <<>>
          BY <4>1, <5>1 DEF stale
        <5> QED
          BY <4>1, <5>1, <5>2
      <4>2. CASE u # Tid /\ u # NoId
        <5>1. u = i.id /\ i.state \in {"Receiving", "Completed"}
              /\ (i.state = "Completed" => h = "awaiting" /\ d = <<>>)
          BY <1>6, <2>3, <4>2 DEF Matches
        <5>2. PICK f \in Messages(stale) : TRUE
          BY <1>8, <4>2, <5>1
        <5>3. Drops(f, u, h, d)
          BY <1>8, <5>1, <5>2 DEF Drops
        <5> QED
          BY <3>1, <4>2, <5>2, <5>3
      <4> QED
        BY <4>1, <4>2
    <3> HIDE DEF q
    <3>4. /\ Handed(u, h, d, q \o <<g>>)
          /\ Messages(q \o <<g>>) = Messages(q) \cup {g}
      BY <1>1, <1>7, <3>1, <3>2, <3>3, HandedMeta DEF g
    <3>5. c2.toRcv = q \o <<g>>
      BY <2>3 DEF q
    <3> QED
      BY <1>7, <1>8, <2>3, <3>1, <3>4, <3>5
  <2> QED
    BY <1>12, <2>1, <2>2, <2>3
<1>15. Steady(i2, c2, l, u, h, d)
  BY <1>2, <1>5, <1>10, <1>14 DEF Steady
<1>16. Within(S, i2, c2, u)
  BY <1>2, <1>5, <1>10, <1>14, NoMessages DEF Within
<1>17. Underway("meta", Tid, N, n, i2, c2, u, h, d, t)
  <2>1. Flags("meta", Tid, i2, t)
    BY <1>2 DEF Flags
  <2>2. Way(Tid, c2, u, h, d)
    BY <1>6, <1>10, <1>11, <1>14 DEF Way, Lacks, Avoids, Matches, NoMeta
  <2>3. Settled("meta", i2, c2, u, h, d)
    BY <1>2 DEF Settled
  <2>4. \A f \in Messages(c2.toRcv) : f.id = Tid => f.type \notin {"BACKFILL", "SECTION_END"}
    BY <1>5, <1>14 DEF Unbegun, Avoids
  <2>5. Spared(Tid, i2, c2, u, d)
    BY <1>2, <2>4 DEF Spared, Lacks
  <2>6. Numbers(Tid, c2, u, d, N)
    BY <1>5, <1>11, <2>4 DEF Numbers, Lacks, Avoids, Unbegun
  <2> QED
    BY <2>1, <2>2, <2>3, <2>5, <2>6 DEF Underway
<1> QED
  BY <1>15, <1>16, <1>17 DEF Fits

------------------------------------------------------------------------------
(* The proxy moves on, and changes what it knows of a receiver *)

\* What does not depend on the transfer that is under way.
LEMMA IdleFits ==
    ASSUME NEW p, NEW T, NEW S, NEW N, NEW n, NEW i, NEW c, NEW l, NEW u, NEW h, NEW d, NEW t
    PROVE  Fits(FALSE, FALSE, p, T, S, N, n, i, c, l, u, h, d, t) <=> Steady(i, c, l, u, h, d)
  BY DEF Fits

On(p, T, S, N, n, i, c, l, u, h, d, t) ==
    /\ Steady(i, c, l, u, h, d) /\ Within(S, i, c, u)
    /\ Underway(p, T, N, n, i, c, u, h, d, t)

LEMMA OnFits ==
    ASSUME NEW p, NEW T, NEW S, NEW N, NEW n, NEW i, NEW c, NEW l, NEW u, NEW h, NEW d, NEW t
    PROVE  Fits(FALSE, TRUE, p, T, S, N, n, i, c, l, u, h, d, t)
           <=> On(p, T, S, N, n, i, c, l, u, h, d, t)
  BY DEF Fits, On

LEMMA MoveFits ==
    ASSUME NEW p, NEW T, NEW S, NEW N, NEW n, NEW i, NEW c, NEW l, NEW u, NEW h, NEW d, NEW t,
           NEW p2, NEW N2, NEW n2, NEW i2, NEW t2,
           On(p, T, S, N, n, i, c, l, u, h, d, t),
           {i2.id, i2.meta} \subseteq S, i2.completed => Finished(u, h, d, c.toRcv, i2.meta),
           Flags(p2, T, i2, t2), Settled(p2, i2, c, u, h, d), Spared(T, i2, c, u, d),
           p2 \in {"meta", "section", "collect"} =>
               p \in {"meta", "section", "collect"} /\ N \subseteq N2,
           p2 = "collect" => Current(T, i2, c, u, d, n2)
    PROVE  On(p2, T, S, N2, n2, i2, c, l, u, h, d, t2)
<1>1. Underway(p, T, N, n, i, c, u, h, d, t)
  BY DEF On
<1>2. Steady(i2, c, l, u, h, d) /\ Within(S, i2, c, u)
  BY DEF On, Steady, Within
<1>3. p2 \in {"meta", "section", "collect"} => Numbers(T, c, u, d, N2)
  BY <1>1 DEF Underway, Numbers
<1>4. Underway(p2, T, N2, n2, i2, c, u, h, d, t2)
  BY <1>1, <1>3 DEF Underway
<1> QED
  BY <1>2, <1>4 DEF On

\* What Fits says of a transfer that is under way.
LEMMA FitsSays ==
    ASSUME NEW p, NEW T, NEW S, NEW N, NEW n, NEW i, NEW c, NEW l, NEW u, NEW h, NEW d, NEW t,
           On(p, T, S, N, n, i, c, l, u, h, d, t)
    PROVE  /\ Steady(i, c, l, u, h, d) /\ Within(S, i, c, u) /\ {i.id, i.meta} \subseteq S
           /\ i.completed => Finished(u, h, d, c.toRcv, i.meta)
           /\ Flags(p, T, i, t) /\ Way(T, c, u, h, d) /\ Settled(p, i, c, u, h, d)
           /\ Spared(T, i, c, u, d)
           /\ p \in {"meta", "section", "collect"} => Numbers(T, c, u, d, N)
           /\ p = "collect" => Current(T, i, c, u, d, n)
  BY DEF On, Steady, Within, Underway

\* RECEIVER_COMPLETE has arrived.
LEMMA ConfirmFits ==
    ASSUME NEW p \in {"meta", "collect", "backfill"}, NEW S, Tid \in S, NEW N, NEW n,
           NEW i \in Infos, NEW c, NEW l, NEW u, NEW h, NEW d, NEW t, NEW t2, t2 # "todo",
           On(p, Tid, S, N, n, i, c, l, u, h, d, t),
           NEW f \in Messages(c.toProxy), f.type = "RECEIVER_COMPLETE", f.id = Tid
    PROVE  On(p, Tid, S, N, n, Confirmed(i), c, l, u, h, d, t2)
<1> DEFINE i2 == Confirmed(i)
<1>1. /\ i2.completed /\ ~i2.isolated /\ i2.state = "Completed" /\ i2.id = Tid
      /\ i2.meta = i.meta /\ i2.abandoned = i.abandoned /\ i2.ready = i.ready
      /\ i2.status = i.status
  BY DEF Confirmed, Infos
<1> HIDE DEF i2
<1>2. /\ Flags(p, Tid, i, t) /\ Way(Tid, c, u, h, d) /\ Settled(p, i, c, u, h, d)
      /\ Spared(Tid, i, c, u, d) /\ {i.id, i.meta} \subseteq S
      /\ p = "collect" => Current(Tid, i, c, u, d, n)
  BY FitsSays
<1>3. i.meta = Tid /\ Finished(u, h, d, c.toRcv, Tid)
  BY <1>2 DEF Flags, Way, Lacks
<1>4. Flags(p, Tid, i2, t2)
  BY <1>1, <1>2, <1>3 DEF Flags
<1>5. Settled(p, i2, c, u, h, d)
  BY <1>1, <1>3 DEF Settled, Matches, Finished
<1>6. Spared(Tid, i2, c, u, d)
  BY <1>1, <1>2 DEF Spared
<1>7. p = "collect" => Current(Tid, i2, c, u, d, n)
  BY <1>1, <1>2 DEF Current
<1>8. {i2.id, i2.meta} \subseteq S /\ (i2.completed => Finished(u, h, d, c.toRcv, i2.meta))
  BY <1>1, <1>2, <1>3
<1>9. On(p, Tid, S, N, n, i2, c, l, u, h, d, t2)
  BY <1>4, <1>5, <1>6, <1>7, <1>8, MoveFits
<1> QED
  BY <1>9 DEF i2

\* RECEIVER_READY has arrived.
LEMMA ReadyFits ==
    ASSUME NEW T, NEW S, NoId \in S, NEW N, NEW n,
           NEW i \in Infos, NEW c, NEW l, NEW u, NEW h, NEW d, NEW t,
           On("barrier", T, S, N, n, i, c, l, u, h, d, t),
           NEW f \in Messages(c.toProxy), f.type = "RECEIVER_READY", f.id = T
    PROVE  On("barrier", T, S, N, n,
                [i EXCEPT !.ready = TRUE, !.state = "Idle", !.id = NoId, !.meta = NoId], c, l, u, h, d, t)
<1> DEFINE i2 == [i EXCEPT !.ready = TRUE, !.state = "Idle", !.id = NoId, !.meta = NoId]
<1>1. /\ i2.completed = i.completed /\ i2.isolated = i.isolated /\ i2.state = "Idle"
      /\ i2.id = NoId /\ i2.meta = NoId /\ i2.abandoned = i.abandoned
  BY DEF Infos
<1> HIDE DEF i2
<1>2. /\ Flags("barrier", T, i, t) /\ Way(T, c, u, h, d) /\ Spared(T, i, c, u, d)
      /\ {i.id, i.meta} \subseteq S
  BY FitsSays
<1>3. u = NoId /\ NoMeta(c.toRcv)
  BY <1>2 DEF Way, Lacks
<1>4. Flags("barrier", T, i2, t)
  BY <1>1, <1>2 DEF Flags
<1>5. Settled("barrier", i2, c, u, h, d)
  BY <1>3 DEF Settled, Matches
<1>6. Spared(T, i2, c, u, d)
  BY <1>1, <1>2 DEF Spared
<1>7. {i2.id, i2.meta} \subseteq S /\ (i2.completed => Finished(u, h, d, c.toRcv, i2.meta))
  BY <1>1, <1>3 DEF Finished
<1>8. On("barrier", T, S, N, n, i2, c, l, u, h, d, t)
  BY <1>4, <1>5, <1>6, <1>7, MoveFits
<1> QED
  BY <1>8 DEF i2

\* META_READY, or a report, has arrived.
LEMMA MetaReadyFits ==
    ASSUME NEW T, NEW S, T \in S, NEW N, NEW n,
           NEW i \in Infos, NEW c, NEW l, NEW u, NEW h, NEW d, NEW t,
           On("meta", T, S, N, n, i, c, l, u, h, d, t)
    PROVE  On("meta", T, S, N, n,
                [i EXCEPT !.metaReady = TRUE, !.state = "Receiving", !.id = T], c, l, u, h, d, t)
<1> DEFINE i2 == [i EXCEPT !.metaReady = TRUE, !.state = "Receiving", !.id = T]
<1>1. /\ i2.completed = i.completed /\ i2.isolated = i.isolated
      /\ i2.id = T /\ i2.meta = i.meta /\ i2.abandoned = i.abandoned
  BY DEF Infos
<1> HIDE DEF i2
<1>2. /\ Flags("meta", T, i, t) /\ Spared(T, i, c, u, d) /\ {i.id, i.meta} \subseteq S
      /\ i.completed => Finished(u, h, d, c.toRcv, i.meta)
  BY FitsSays
<1>3. Flags("meta", T, i2, t)
  BY <1>1, <1>2 DEF Flags
<1>4. Settled("meta", i2, c, u, h, d)
  BY <1>1, <1>2 DEF Settled, Flags
<1>5. Spared(T, i2, c, u, d)
  BY <1>1, <1>2 DEF Spared
<1>6. {i2.id, i2.meta} \subseteq S /\ (i2.completed => Finished(u, h, d, c.toRcv, i2.meta))
  BY <1>1, <1>2
<1>7. N \subseteq N
  OBVIOUS
<1>8. On("meta", T, S, N, n, i2, c, l, u, h, d, t)
  BY <1>3, <1>4, <1>5, <1>6, <1>7, MoveFits
<1> QED
  BY <1>8 DEF i2

LEMMA StatusFits ==
    ASSUME NEW p, NEW T, NEW S, NEW N, NEW n,
           NEW i \in Infos, NEW c, NEW l, NEW u, NEW h, NEW d, NEW t, NEW t2, t2 \in {t, "done"},
           On(p, T, S, N, n, i, c, l, u, h, d, t),
           NEW code, p = "collect" /\ code = "Missing" => Bare(u, d, c.toRcv, T)
    PROVE  On(p, T, S, N, n,
                [i EXCEPT !.status = code], c, l, u, h, d, t2)
<1> DEFINE i2 == [i EXCEPT !.status = code]
<1>1. /\ i2.completed = i.completed /\ i2.isolated = i.isolated /\ i2.ready = i.ready
      /\ i2.id = i.id /\ i2.meta = i.meta /\ i2.abandoned = i.abandoned /\ i2.state = i.state
      /\ i2.status = code
  BY DEF Infos
<1> HIDE DEF i2
<1>2. /\ Flags(p, T, i, t) /\ Settled(p, i, c, u, h, d) /\ Spared(T, i, c, u, d)
      /\ {i.id, i.meta} \subseteq S /\ (i.completed => Finished(u, h, d, c.toRcv, i.meta))
      /\ p = "collect" => Current(T, i, c, u, d, n)
  BY FitsSays
<1>3. Flags(p, T, i2, t2)
  BY <1>1, <1>2 DEF Flags
<1>4. Settled(p, i2, c, u, h, d)
  BY <1>1, <1>2 DEF Settled, Matches
<1>5. Spared(T, i2, c, u, d)
  BY <1>1, <1>2 DEF Spared
<1>6. p = "collect" => Current(T, i2, c, u, d, n)
  BY <1>1, <1>2 DEF Current
<1>7. On(p, T, S, N, n, i2, c, l, u, h, d, t2)
  BY <1>1, <1>2, <1>3, <1>4, <1>5, <1>6, MoveFits
<1> QED
  BY <1>7 DEF i2

\* The proxy gives a receiver up in the backfill.
LEMMA AbandonFits ==
    ASSUME NEW T, NEW S, NEW N, NEW n,
           NEW i \in Infos, NEW c, NEW l, NEW u, NEW h, NEW d, NEW t, NEW t2, t2 # "todo",
           On("backfill", T, S, N, n, i, c, l, u, h, d, t), ~c.open
    PROVE  On("backfill", T, S, N, n,
                [i EXCEPT !.abandoned = TRUE], c, l, u, h, d, t2)
<1> DEFINE i2 == [i EXCEPT !.abandoned = TRUE]
<1>1. /\ i2.completed = i.completed /\ i2.isolated = i.isolated /\ i2.ready = i.ready
      /\ i2.id = i.id /\ i2.meta = i.meta
  BY DEF Infos
<1> HIDE DEF i2
<1>2. /\ Flags("backfill", T, i, t) /\ Spared(T, i, c, u, d)
      /\ {i.id, i.meta} \subseteq S /\ (i.completed => Finished(u, h, d, c.toRcv, i.meta))
  BY FitsSays
<1>3. Flags("backfill", T, i2, t2)
  BY <1>1, <1>2 DEF Flags
<1>4. Settled("backfill", i2, c, u, h, d)
  BY DEF Settled
<1>5. Spared(T, i2, c, u, d)
  BY <1>1, <1>2 DEF Spared
<1>6. On("backfill", T, S, N, n, i2, c, l, u, h, d, t2)
  BY <1>1, <1>2, <1>3, <1>4, <1>5, MoveFits
<1> QED
  BY <1>6 DEF i2

\* A slow receiver is isolated: what it lacks was its last word.
LEMMA IsolatedFits ==
    ASSUME NEW T, NEW S, NEW N, NEW n,
           NEW i \in Infos, NEW c, NEW l, NEW u, NEW h, NEW d, NEW t,
           On("collect", T, S, N, n, i, c, l, u, h, d, t),
           NEW slow, slow => i.status = "Missing"
    PROVE  On("collect", T, S, N, n,
                [i EXCEPT !.isolated = @ \/ slow], c, l, u, h, d, t)
<1> DEFINE i2 == [i EXCEPT !.isolated = @ \/ slow]
<1>1. /\ i2.completed = i.completed /\ (i2.isolated <=> i.isolated \/ slow) /\ i2.ready = i.ready
      /\ i2.id = i.id /\ i2.meta = i.meta /\ i2.abandoned = i.abandoned /\ i2.state = i.state
      /\ i2.status = i.status
  BY DEF Infos
<1> HIDE DEF i2
<1>2. /\ Flags("collect", T, i, t) /\ Settled("collect", i, c, u, h, d) /\ Spared(T, i, c, u, d)
      /\ {i.id, i.meta} \subseteq S /\ (i.completed => Finished(u, h, d, c.toRcv, i.meta))
      /\ Current(T, i, c, u, d, n)
  BY FitsSays
<1>3. Flags("collect", T, i2, t)
  BY <1>1, <1>2 DEF Flags
<1>4. Settled("collect", i2, c, u, h, d)
  BY <1>1, <1>2 DEF Settled, Matches
<1>5. Spared(T, i2, c, u, d)
  BY <1>1, <1>2 DEF Spared, Current
<1>6. Current(T, i2, c, u, d, n)
  BY <1>1, <1>2 DEF Current
<1>7. On("collect", T, S, N, n, i2, c, l, u, h, d, t)
  BY <1>1, <1>2, <1>3, <1>4, <1>5, <1>6, MoveFits
<1> QED
  BY <1>7 DEF i2

\* The next step of an attempt, with the same record.
LEMMA StepFits ==
    ASSUME NEW p, NEW T, NEW S, NEW N, NEW n, NEW i, NEW c, NEW l, NEW u, NEW h, NEW d, NEW t,
           NEW p2 \in {"section", "backfill"}, NEW N2, NEW n2, NEW t2, t2 = "todo" => i.isolated,
           p \in {"meta", "section", "collect"}, N \subseteq N2,
           On(p, T, S, N, n, i, c, l, u, h, d, t)
    PROVE  On(p2, T, S, N2, n2, i, c, l, u, h, d, t2)
<1>1. /\ Flags(p, T, i, t) /\ Settled(p, i, c, u, h, d) /\ Spared(T, i, c, u, d)
      /\ {i.id, i.meta} \subseteq S /\ (i.completed => Finished(u, h, d, c.toRcv, i.meta))
  BY FitsSays
<1>2. Flags(p2, T, i, t2) /\ Settled(p2, i, c, u, h, d)
  BY <1>1 DEF Flags, Settled
<1> QED
  BY <1>1, <1>2, MoveFits

\* The wait for READY starts.
LEMMA BarrierFits ==
    ASSUME NEW p, NEW T, NEW S, NEW N, NEW n, NEW i \in Infos, NEW c, NEW l, NEW u, NEW h, NEW d,
           NEW t, NEW N2, NEW n2, NEW t2, t2 # "todo", p # "barrier",
           On(p, T, S, N, n, i, c, l, u, h, d, t)
    PROVE  On("barrier", T, S, N2, n2,
                [i EXCEPT !.ready = FALSE], c, l, u, h, d, t2)
<1> DEFINE i2 == [i EXCEPT !.ready = FALSE]
<1>1. /\ i2.completed = i.completed /\ i2.isolated = i.isolated /\ i2.ready = FALSE
      /\ i2.id = i.id /\ i2.meta = i.meta /\ i2.abandoned = i.abandoned /\ i2.state = i.state
  BY DEF Infos
<1> HIDE DEF i2
<1>2. /\ Flags(p, T, i, t) /\ Settled(p, i, c, u, h, d) /\ Spared(T, i, c, u, d)
      /\ {i.id, i.meta} \subseteq S /\ (i.completed => Finished(u, h, d, c.toRcv, i.meta))
  BY FitsSays
<1>3. Flags("barrier", T, i2, t2)
  BY <1>1, <1>2 DEF Flags
<1>4. Settled("barrier", i2, c, u, h, d)
  BY <1>1, <1>2 DEF Settled, Matches
<1>5. Spared(T, i2, c, u, d)
  BY <1>1, <1>2 DEF Spared
<1>6. On("barrier", T, S, N2, n2, i2, c, l, u, h, d, t2)
  BY <1>1, <1>2, <1>3, <1>4, <1>5, MoveFits
<1> QED
  BY <1>6 DEF i2

\* The record of a receiver when a round of reports starts (reset_round_state).
Anew(i) == [i EXCEPT !.status = "NO_REPORT", !.ready = FALSE]

\* A round of reports starts: nobody has heard of it yet.
LEMMA NewRoundFits ==
    ASSUME NEW p \in {"section", "collect"}, NEW T, NEW S, NEW N, NEW n,
           NEW i \in Infos, NEW c \in Conns, NEW l, NEW u, NEW h, NEW d, NEW t,
           NEW N2, NEW n2 \in Nat \X Nat, N \subseteq N2, n2 \notin N,
           On(p, T, S, N, n, i, c, l, u, h, d, t)
    PROVE  /\ On("collect", T, S, N2, n2, Anew(i), c, l, u, h, d, t)
           /\ Numbers(T, c, u, d, N)
<1> DEFINE i2 == Anew(i)
<1>1. /\ i2.completed = i.completed /\ i2.isolated = i.isolated /\ i2.status = "NO_REPORT"
      /\ i2.id = i.id /\ i2.meta = i.meta /\ i2.abandoned = i.abandoned /\ i2.state = i.state
  BY DEF Anew, Infos
<1> HIDE DEF i2
<1>2. /\ Flags(p, T, i, t) /\ Settled(p, i, c, u, h, d) /\ Spared(T, i, c, u, d)
      /\ {i.id, i.meta} \subseteq S /\ (i.completed => Finished(u, h, d, c.toRcv, i.meta))
      /\ Numbers(T, c, u, d, N)
  BY FitsSays
<1>3. Flags("collect", T, i2, t)
  BY <1>1, <1>2 DEF Flags
<1>4. Settled("collect", i2, c, u, h, d)
  BY <1>1, <1>2 DEF Settled, Matches
<1>5. Spared(T, i2, c, u, d)
  BY <1>1, <1>2 DEF Spared
<1>6. Current(T, i2, c, u, d, n2)
  <2>1. n2 # <<>> /\ n2 = <<n2[1], n2[2]>>
    BY PairFacts
  <2>2. DOMAIN c.toRcv = 1 .. Len(c.toRcv)
    BY LenProperties DEF Conns
  <2>3. \A x \in 1 .. Len(c.toRcv) : ~IsEnd(c.toRcv[x], T, n2)
    BY <1>2, <2>1, <2>2 DEF Numbers, IsEnd, Messages
  <2>4. ~(u = T /\ d = n2)
    BY <1>2, <2>1 DEF Numbers
  <2>5. \A f \in Messages(c.toProxy) :
            ~(f.type = "SECTION_STATUS" /\ f.id = T /\ f.section = n2[1] /\ f.round = n2[2])
    BY <1>2, <2>1 DEF Numbers
  <2> QED
    BY <1>1, <2>3, <2>4, <2>5 DEF Current
<1>7. On("collect", T, S, N2, n2, i2, c, l, u, h, d, t)
  BY <1>1, <1>2, <1>3, <1>4, <1>5, <1>6, MoveFits
<1> QED
  BY <1>2, <1>7 DEF i2

\* SECTION_END of that round.
LEMMA SectionEndFits ==
    ASSUME NEW T, NEW S, T \in S, NEW N, NEW i, i.status = "NO_REPORT", ~i.isolated,
           NEW c \in Conns, NEW u, NEW h, NEW d, NEW t, NEW c2,
           NEW N2, NEW n2 \in Nat \X Nat, n2 \in N2, n2 \notin N, Numbers(T, c, u, d, N),
           SectionEnd(T, n2[1], n2[2]) \in RcvFrames, c.open, c2.open,
           c2.toRcv = c.toRcv \o <<SectionEnd(T, n2[1], n2[2])>>, c2.toProxy = c.toProxy,
           On("collect", T, S, N2, n2, i, c, "up", u, h, d, t)
    PROVE  On("collect", T, S, N2, n2, i, c2, "up", u, h, d, t)
<1> DEFINE q == c.toRcv
           q2 == c2.toRcv
           f == SectionEnd(T, n2[1], n2[2])
<1>1. /\ f \in RcvFrames /\ f.type = "SECTION_END" /\ f.id = T /\ f.section = n2[1]
      /\ f.round = n2[2]
  BY DEF SectionEnd
<1>2. q \in Seq(RcvFrames) /\ q2 = q \o <<f>>
  BY DEF Conns
<1>3. n2 # <<>> /\ n2 = <<n2[1], n2[2]>>
  BY PairFacts
<1> HIDE DEF f
<1>4. /\ Len(q) \in Nat /\ Len(q2) = Len(q) + 1 /\ \A k \in 1 .. Len(q) : q2[k] = q[k]
      /\ q2[Len(q) + 1] = f /\ Messages(q2) = Messages(q) \cup {f}
  BY <1>1, <1>2, AppendFacts
<1>5. /\ \A id : Finished(u, h, d, q, id) => Finished(u, h, d, q2, id)
      /\ Matches(i, u, h, d, q) => Matches(i, u, h, d, q2)
      /\ NoMeta(q) => NoMeta(q2)
  BY <1>1, <1>2, MoreKnown
<1>6. Handed(u, h, d, q) => Handed(u, h, d, q2)
  BY <1>1, <1>2, HandedMore
<1>7. /\ Steady(i, c, "up", u, h, d) /\ Within(S, i, c, u)
      /\ Flags("collect", T, i, t) /\ Way(T, c, u, h, d) /\ Settled("collect", i, c, u, h, d)
      /\ Numbers(T, c, u, d, N2)
  BY DEF On, Underway
<1>8. Steady(i, c2, "up", u, h, d)
  BY <1>5, <1>6, <1>7 DEF Steady
<1>9. Within(S, i, c2, u)
  BY <1>1, <1>4, <1>7 DEF Within
<1>10. Way(T, c2, u, h, d)
  BY <1>1, <1>4, <1>5, <1>7 DEF Way
<1>11. Settled("collect", i, c2, u, h, d)
  BY <1>5, <1>7 DEF Settled
<1>12. Spared(T, i, c2, u, d)
  <2>1. Lacks(q2, "BACKFILL", T)
    BY <1>1, <1>4, <1>7 DEF Numbers, Lacks
  <2> QED
    BY <2>1 DEF Spared
<1>13. Numbers(T, c2, u, d, N2)
  BY <1>1, <1>3, <1>4, <1>7 DEF Numbers, Lacks
<1>14. Current(T, i, c2, u, d, n2)
  <2>1. DOMAIN q = 1 .. Len(q)
    BY <1>2, LenProperties
  <2>2. \A x \in 1 .. Len(q) : ~IsEnd(q[x], T, n2)
    BY <1>3, <2>1 DEF Numbers, IsEnd, Messages
  <2>3. \A x \in 1 .. Len(q2) : x = Len(q) + 1 \/ (x \in 1 .. Len(q) /\ q2[x] = q[x])
    BY <1>4
  <2>4. \A x, y \in 1 .. Len(q2) :
            x < y /\ IsEnd(q2[x], T, n2) => ~(q2[y].type = "SECTION_END" /\ q2[y].id = T)
    BY <1>4, <2>2, <2>3
  <2>5. ~(u = T /\ d = n2)
    BY <1>3 DEF Numbers
  <2>6. \A g \in Messages(c.toProxy) :
            ~(g.type = "SECTION_STATUS" /\ g.id = T /\ g.section = n2[1] /\ g.round = n2[2])
    BY <1>3 DEF Numbers
  <2> QED
    BY <2>4, <2>5, <2>6 DEF Current
<1> QED
  BY <1>7, <1>8, <1>9, <1>10, <1>11, <1>12, <1>13, <1>14 DEF On, Underway

------------------------------------------------------------------------------
(* The steps of the connection while a transfer is under way *)

\* Any change of the proxy's end that only takes something away.
LEMMA WeakenOn ==
    ASSUME NEW p, NEW T, NEW S, NEW N, NEW n,
           NEW i, NEW c, NEW l, NEW u, NEW h, NEW d, NEW t, NEW c2,
           c2.open => c.open, c2.toRcv = c.toRcv,
           Messages(c2.toProxy) \subseteq Messages(c.toProxy), ~c2.open => c2.toProxy = <<>>
    PROVE  /\ On(p, T, S, N, n, i, c, l, u, h, d, t) => On(p, T, S, N, n, i, c2, l, u, h, d, t)
           /\ Steady(i, c, l, u, h, d) => Steady(i, c2, l, u, h, d)
<1>1. Fits(FALSE, TRUE, p, T, S, N, n, i, c, l, u, h, d, t)
      => Fits(FALSE, TRUE, p, T, S, N, n, i, c2, l, u, h, d, t)
  BY WeakenFits
<1>2. Steady(i, c, l, u, h, d) => Steady(i, c2, l, u, h, d)
  BY DEF Steady
<1> QED
  BY <1>1, <1>2, OnFits

LEMMA PoppedOn ==
    ASSUME NEW c \in Conns, c.toProxy # <<>>,
           NEW p, NEW T, NEW S, NEW N, NEW n, NEW i, NEW l, NEW u, NEW h, NEW d, NEW t
    PROVE  /\ [c EXCEPT !.toProxy = Tail(@)] \in Conns
           /\ [c EXCEPT !.toProxy = Tail(@)].toRcv = c.toRcv
           /\ Head(c.toProxy) \in Messages(c.toProxy)
           /\ On(p, T, S, N, n, i, c, l, u, h, d, t)
              => On(p, T, S, N, n, i, [c EXCEPT !.toProxy = Tail(@)], l, u, h, d, t)
           /\ Steady(i, c, l, u, h, d) => Steady(i, [c EXCEPT !.toProxy = Tail(@)], l, u, h, d)
<1> DEFINE c2 == [c EXCEPT !.toProxy = Tail(@)]
<1>1. c.toProxy \in Seq(ProxyFrames)
  BY DEF Conns
<1>2. /\ Messages(Tail(c.toProxy)) \subseteq Messages(c.toProxy) /\ Tail(c.toProxy) \in Seq(ProxyFrames)
      /\ Head(c.toProxy) \in Messages(c.toProxy)
  BY <1>1, TailFacts
<1>3. c2 \in Conns /\ c2.open = c.open /\ c2.toRcv = c.toRcv /\ c2.toProxy = Tail(c.toProxy)
  BY <1>2 DEF Conns
<1> HIDE DEF c2
<1>4. /\ On(p, T, S, N, n, i, c, l, u, h, d, t) => On(p, T, S, N, n, i, c2, l, u, h, d, t)
      /\ Steady(i, c, l, u, h, d) => Steady(i, c2, l, u, h, d)
  <2>1. CASE c.open
    BY <1>2, <1>3, <2>1, WeakenOn
  <2>2. CASE ~c.open
    <3>1. ~Steady(i, c, l, u, h, d)
      BY <2>2 DEF Steady
    <3> QED
      BY <3>1 DEF On
  <2> QED
    BY <2>1, <2>2
<1> QED
  BY <1>2, <1>3, <1>4 DEF c2

LEMMA ClosedOn ==
    ASSUME NEW c \in Conns,
           NEW p, NEW T, NEW S, NEW N, NEW n, NEW i, NEW l, NEW u, NEW h, NEW d, NEW t
    PROVE  /\ Closed(c) \in Conns /\ ~Closed(c).open /\ Closed(c).toRcv = c.toRcv
           /\ On(p, T, S, N, n, i, c, l, u, h, d, t)
              => On(p, T, S, N, n, i, Closed(c), l, u, h, d, t)
           /\ Steady(i, c, l, u, h, d) => Steady(i, Closed(c), l, u, h, d)
<1> DEFINE c2 == Closed(c)
<1>1. c2 \in Conns /\ ~c2.open /\ c2.toRcv = c.toRcv /\ c2.toProxy = <<>>
  BY EmptySeq DEF Closed, Conns
<1> HIDE DEF c2
<1>2. Messages(c2.toProxy) \subseteq Messages(c.toProxy)
  BY <1>1, NoMessages
<1>3. /\ On(p, T, S, N, n, i, c, l, u, h, d, t) => On(p, T, S, N, n, i, c2, l, u, h, d, t)
      /\ Steady(i, c, l, u, h, d) => Steady(i, c2, l, u, h, d)
  BY <1>1, <1>2, WeakenOn
<1> QED
  BY <1>1, <1>3 DEF c2

\* send_receiver_frame with one frame, or none.
LEMMA SentOn ==
    ASSUME NEW p, NEW T, NEW S, NEW N, NEW n, NEW i, NEW c \in Conns, NEW l, NEW u, NEW h, NEW d,
           NEW t, NEW frames, NEW fails,
           frames = <<>> \/ \E f : frames = <<f>> /\ Plain(f, p, T, S, u, d, c.toRcv),
           On(p, T, S, N, n, i, c, l, u, h, d, t)
    PROVE  On(p, T, S, N, n, i, Sent(c, l = "up", frames, fails), l, u, h, d, t)
<1>1. Fits(FALSE, TRUE, p, T, S, N, n, i, c, l, u, h, d, t)
  BY OnFits
<1>2. Fits(FALSE, TRUE, p, T, S, N, n, i, Sent(c, l = "up", frames, fails), l, u, h, d, t)
  BY <1>1, SentFits
<1> QED
  BY <1>2, OnFits

\* The frames of the end of a session, or of a transfer nobody is interested in.
LEMMA SentSteady ==
    ASSUME NEW i, NEW c \in Conns, NEW l, NEW u, NEW h, NEW d, NEW frames, NEW fails, NEW f,
           frames = <<>> \/ frames = <<f>>, f \in RcvFrames,
           f.type \in {"COMPLETE_ACK", "TRANSFER_FAILED", "SESSION_END"},
           Steady(i, c, l, u, h, d)
    PROVE  Steady(i, Sent(c, l = "up", frames, fails), l, u, h, d)
<1>1. Fits(FALSE, FALSE, "over", 0, {f.id}, 0, 0, i, c, l, u, h, d, "none")
  BY IdleFits
<1>2. Plain(f, "over", 0, {f.id}, u, d, c.toRcv)
  BY DEF Plain
<1>3. Fits(FALSE, FALSE, "over", 0, {f.id}, 0, 0, i, Sent(c, l = "up", frames, fails), l, u, h, d, "none")
  BY <1>1, <1>2, SentFits
<1> QED
  BY <1>3, IdleFits

\* SECTION_END is sent, or nothing.
LEMMA SectionEndOn ==
    ASSUME NEW T, NEW S, T \in S, NEW N, NEW i, i.status = "NO_REPORT",
           NEW c \in Conns, NEW l, NEW u, NEW h, NEW d, NEW t,
           NEW N2, NEW n2 \in Nat \X Nat, n2 \in N2, n2 \notin N, Numbers(T, c, u, d, N),
           NEW frames, NEW fails,
           \/ frames = <<>>
           \/ /\ frames = <<SectionEnd(T, n2[1], n2[2])>> /\ ~i.isolated
              /\ SectionEnd(T, n2[1], n2[2]) \in RcvFrames,
           On("collect", T, S, N2, n2, i, c, l, u, h, d, t)
    PROVE  On("collect", T, S, N2, n2, i, Sent(c, l = "up", frames, fails), l, u, h, d, t)
<1> DEFINE c2 == Sent(c, l = "up", frames, fails)
<1> SUFFICES On("collect", T, S, N2, n2, i, c2, l, u, h, d, t)
  OBVIOUS
<1>1. CASE frames = <<>>
  BY <1>1, SentOn
<1>2. CASE frames = <<SectionEnd(T, n2[1], n2[2])>> /\ ~i.isolated
           /\ SectionEnd(T, n2[1], n2[2]) \in RcvFrames
  <2>1. \/ c2 = c
        \/ c2 = Closed(c)
        \/ c.open /\ l = "up" /\ c2 = [c EXCEPT !.toRcv = @ \o frames]
    BY DEF Sent
  <2> HIDE DEF c2
  <2>2. CASE c2 = c
    BY <2>2
  <2>3. CASE c2 = Closed(c)
    BY <2>3, ClosedOn
  <2>4. CASE c.open /\ l = "up" /\ c2 = [c EXCEPT !.toRcv = @ \o frames]
    <3>1. /\ c2.open /\ c2.toProxy = c.toProxy
          /\ c2.toRcv = c.toRcv \o <<SectionEnd(T, n2[1], n2[2])>>
      BY <1>2, <2>4 DEF Conns
    <3>2. On("collect", T, S, N2, n2, i, c, "up", u, h, d, t)
      BY <2>4
    <3>3. On("collect", T, S, N2, n2, i, c2, "up", u, h, d, t)
      BY <1>2, <2>4, <3>1, <3>2, SectionEndFits
    <3> QED
      BY <2>4, <3>3
  <2> QED
    BY <2>1, <2>2, <2>3, <2>4
<1> QED
  BY <1>1, <1>2

------------------------------------------------------------------------------
(* The forms of the invariant: under way, in between, at any time *)

\* Before transfer T begins.
Off(T, S, i, c, l, u, h, d) ==
    Steady(i, c, l, u, h, d) /\ Within(S, i, c, u) /\ Unbegun(T, i, c, u, h, d)

LEMMA FitsForms ==
    ASSUME NEW b \in BOOLEAN, NEW a \in BOOLEAN, NEW p, NEW T, NEW S, NEW N, NEW n, NEW i, NEW c,
           NEW l, NEW u, NEW h, NEW d, NEW t
    PROVE  /\ b /\ ~a => (Fits(b, a, p, T, S, N, n, i, c, l, u, h, d, t)
                          <=> Off(T, S, i, c, l, u, h, d))
           /\ a /\ ~b => (Fits(b, a, p, T, S, N, n, i, c, l, u, h, d, t)
                          <=> On(p, T, S, N, n, i, c, l, u, h, d, t))
           /\ ~a /\ ~b => (Fits(b, a, p, T, S, N, n, i, c, l, u, h, d, t)
                           <=> Steady(i, c, l, u, h, d))
           /\ Fits(b, a, p, T, S, N, n, i, c, l, u, h, d, t) => Steady(i, c, l, u, h, d)
  BY DEF Fits, Off, On

\* The barrier has been passed: the next transfer has an id nobody has heard of.
LEMMA NextOff ==
    ASSUME NEW T, NEW S, NEW N, NEW n, NEW i, NEW c, NEW l, NEW u, NEW h, NEW d, NEW t,
           On("barrier", T, S, N, n, i, c, l, u, h, d, t), i.ready \/ i.abandoned,
           NEW T2, T2 \notin S, NEW S2, S \subseteq S2
    PROVE  Off(T2, S2, i, c, l, u, h, d)
<1>1. /\ Steady(i, c, l, u, h, d) /\ Within(S, i, c, u) /\ Flags("barrier", T, i, t)
      /\ Settled("barrier", i, c, u, h, d)
  BY FitsSays
<1>2. Within(S2, i, c, u)
  BY <1>1 DEF Within
<1>3. /\ Avoids(c.toRcv, T2) /\ Avoids(c.toProxy, T2) /\ i.meta # T2 /\ u # T2 /\ i.id # T2
  BY <1>1 DEF Within, Avoids
<1>4. c.open => Matches(i, u, h, d, c.toRcv)
  BY <1>1 DEF Settled
<1>5. i.meta # NoId => i.completed \/ i.abandoned
  BY <1>1 DEF Flags
<1>6. Unbegun(T2, i, c, u, h, d)
  BY <1>3, <1>4, <1>5 DEF Unbegun
<1> QED
  BY <1>1, <1>2, <1>6 DEF Off

\* A file that not everybody got: the others are given up, and their connections closed.
LEMMA AbandonOff ==
    ASSUME NEW T, NEW S, NEW i \in Infos, NEW c \in Conns, NEW l, NEW u, NEW h, NEW d,
           Off(T, S, i, c, l, u, h, d), NEW gone \in BOOLEAN
    PROVE  /\ ~gone => Off(T, S, [i EXCEPT !.abandoned = @ \/ gone], c, l, u, h, d)
           /\ Off(T, S, [i EXCEPT !.abandoned = @ \/ gone], Closed(c), l, u, h, d) \/ i.id = T
<1> DEFINE j == [i EXCEPT !.abandoned = @ \/ gone]
<1>1. /\ j.id = i.id /\ j.meta = i.meta /\ j.state = i.state /\ j.completed = i.completed
      /\ (i.abandoned => j.abandoned)
  BY DEF Infos
<1>2. /\ ~Closed(c).open /\ Closed(c).toRcv = c.toRcv /\ Closed(c).toProxy = <<>>
  BY DEF Closed, Conns
<1> HIDE DEF j
<1>3. /\ Steady(i, c, l, u, h, d) /\ Within(S, i, c, u) /\ Unbegun(T, i, c, u, h, d)
  BY DEF Off
<1>4. Steady(j, c, l, u, h, d)
  BY <1>1, <1>3 DEF Steady
<1>5. Within(S, j, c, u)
  BY <1>1, <1>3 DEF Within
<1>6. Unbegun(T, j, c, u, h, d)
  BY <1>1, <1>3 DEF Unbegun, Matches
<1>7. Steady(j, Closed(c), l, u, h, d)
  BY <1>2, <1>4 DEF Steady
<1>8. Within(S, j, Closed(c), u)
  BY <1>2, <1>5, EmptyFacts, NoMessages DEF Within
<1>9. i.id # T => Unbegun(T, j, Closed(c), u, h, d)
  BY <1>1, <1>2, <1>6, EmptyFacts DEF Unbegun
<1>10. /\ Off(T, S, j, c, l, u, h, d)
       /\ Off(T, S, j, Closed(c), l, u, h, d) \/ i.id = T
  BY <1>4, <1>5, <1>6, <1>7, <1>8, <1>9 DEF Off
<1> QED
  BY <1>10 DEF j

\* A registration is accepted.
LEMMA InstallForms ==
    ASSUME NEW p, NEW T \in Ids, NEW S, NoId \in S, NEW N, NEW n \in Nat \X Nat,
           NEW i \in Infos, NEW c \in Conns, NEW u \in Ids, NEW h, NEW d, NEW t, t # "todo"
    PROVE  /\ Steady(i, c, "pending", u, h, d)
              => Steady(Installed(i, RegOf(u, h)), Fresh(InstallFrames(i, RegOf(u, h))), "up", u, h, d)
           /\ Off(T, S, i, c, "pending", u, h, d)
              => Off(T, S, Installed(i, RegOf(u, h)), Fresh(InstallFrames(i, RegOf(u, h))),
                     "up", u, h, d)
           /\ On(p, T, S, N, n, i, c, "pending", u, h, d, t)
              => On(p, T, S, N, n, Installed(i, RegOf(u, h)),
                    Fresh(InstallFrames(i, RegOf(u, h))), "up", u, h, d, t)
<1> DEFINE j == Installed(i, RegOf(u, h))
           e == Fresh(InstallFrames(i, RegOf(u, h)))
<1>1. ASSUME NEW b \in BOOLEAN, NEW a \in BOOLEAN, Fits(b, a, p, T, S, N, n, i, c, "pending", u, h, d, t)
      PROVE  Fits(b, a, p, T, S, N, n, j, e, "up", u, h, d, t)
  BY <1>1, InstallFits
<1> HIDE DEF j, e
<1>2. Steady(i, c, "pending", u, h, d) => Steady(j, e, "up", u, h, d)
  <2> SUFFICES ASSUME Steady(i, c, "pending", u, h, d) PROVE Steady(j, e, "up", u, h, d)
    OBVIOUS
  <2>1. PICK b \in BOOLEAN, a \in BOOLEAN : ~a /\ ~b
    OBVIOUS
  <2>2. Fits(b, a, p, T, S, N, n, i, c, "pending", u, h, d, t)
    BY <2>1, FitsForms
  <2>3. Fits(b, a, p, T, S, N, n, j, e, "up", u, h, d, t)
    BY <2>2, <1>1
  <2> QED
    BY <2>1, <2>3, FitsForms
<1>3. Off(T, S, i, c, "pending", u, h, d) => Off(T, S, j, e, "up", u, h, d)
  <2> SUFFICES ASSUME Off(T, S, i, c, "pending", u, h, d) PROVE Off(T, S, j, e, "up", u, h, d)
    OBVIOUS
  <2>1. PICK b \in BOOLEAN, a \in BOOLEAN : ~a /\ b
    OBVIOUS
  <2>2. Fits(b, a, p, T, S, N, n, i, c, "pending", u, h, d, t)
    BY <2>1, FitsForms
  <2>3. Fits(b, a, p, T, S, N, n, j, e, "up", u, h, d, t)
    BY <2>2, <1>1
  <2> QED
    BY <2>1, <2>3, FitsForms
<1>4. On(p, T, S, N, n, i, c, "pending", u, h, d, t) => On(p, T, S, N, n, j, e, "up", u, h, d, t)
  <2> SUFFICES ASSUME On(p, T, S, N, n, i, c, "pending", u, h, d, t)
               PROVE  On(p, T, S, N, n, j, e, "up", u, h, d, t)
    OBVIOUS
  <2>1. PICK b \in BOOLEAN, a \in BOOLEAN : a /\ ~b
    OBVIOUS
  <2>2. Fits(b, a, p, T, S, N, n, i, c, "pending", u, h, d, t)
    BY <2>1, FitsForms
  <2>3. Fits(b, a, p, T, S, N, n, j, e, "up", u, h, d, t)
    BY <2>2, <1>1
  <2> QED
    BY <2>1, <2>3, FitsForms
<1> QED
  BY <1>2, <1>3, <1>4 DEF j, e

\* A transfer begins.
LEMMA BeginOff ==
    ASSUME TypeOK, NEW S, NoId \in S, Tid \in S, NEW N, NEW n \in Nat \X Nat,
           NEW i \in Infos, NEW c \in Conns, NEW l, NEW u \in Ids, NEW h, NEW d, NEW t, t # "todo",
           NEW fails, Off(Tid, S, i, c, l, u, h, d)
    PROVE  On("meta", Tid, S, N, n, Begun(i), Sent(c, l = "up", BeginFrames(i), fails), l, u, h, d, t)
<1>1. Fits(TRUE, FALSE, "meta", Tid, S, N, n, i, c, l, u, h, d, t)
  BY DEF Fits, Off
<1>2. Fits(FALSE, TRUE, "meta", Tid, S, N, n, Begun(i), Sent(c, l = "up", BeginFrames(i), fails),
           l, u, h, d, t)
  BY <1>1, BeginFits
<1> QED
  BY <1>2, OnFits

------------------------------------------------------------------------------
(* The invariant of all receivers *)

OnAt(r) == On(pc, Tid, Seen, Past, Now,
              info[r], conn[r], link[r], cur[r], phase[r], drain[r], task[r])
OffAt(r) == Off(Tid, Seen, info[r], conn[r], link[r], cur[r], phase[r], drain[r])
SteadyAt(r) == Steady(info[r], conn[r], link[r], cur[r], phase[r], drain[r])

AllFit == \A r \in Receivers : FitsAt(r)

LEMMA AtForms ==
    /\ Active => (AllFit <=> \A r \in Receivers : OnAt(r))
    /\ Begins => (AllFit <=> \A r \in Receivers : OffAt(r))
    /\ ~Begins /\ ~Active => (AllFit <=> \A r \in Receivers : SteadyAt(r))
    /\ AllFit => \A r \in Receivers : SteadyAt(r)
<1>1. Begins \in BOOLEAN /\ Active \in BOOLEAN /\ ~(Begins /\ Active)
  BY DEF Begins, Active
<1>2. ASSUME NEW r \in Receivers
      PROVE  /\ Begins /\ ~Active => (FitsAt(r) <=> OffAt(r))
             /\ Active /\ ~Begins => (FitsAt(r) <=> OnAt(r))
             /\ ~Active /\ ~Begins => (FitsAt(r) <=> SteadyAt(r))
             /\ FitsAt(r) => SteadyAt(r)
  BY <1>1, FitsForms DEF FitsAt, OffAt, OnAt, SteadyAt
<1> QED
  BY <1>1, <1>2 DEF AllFit

LEMMA AtFormsNext ==
    /\ Active' => (AllFit' <=> (\A r \in Receivers : OnAt(r))')
    /\ Begins' => (AllFit' <=> (\A r \in Receivers : OffAt(r))')
    /\ ~Begins' /\ ~Active' => (AllFit' <=> (\A r \in Receivers : SteadyAt(r))')
  BY AtForms, PTL

\* What the lemmas above need of a receiver.
LEMMA Types ==
    ASSUME Inv, NEW r \in Receivers
    PROVE  /\ info[r] \in Infos /\ conn[r] \in Conns /\ cur[r] \in Ids
           /\ link[r] \in {"up", "down", "pending", "gone"}
           /\ drain[r] = <<>> \/ drain[r] \in Nat \X Rounds
           /\ Registration(r) = RegOf(cur[r], phase[r])
  BY DEF Inv, TypeOK, Registration, RegOf

LEMMA IdTypes ==
    ASSUME Inv
    PROVE  /\ Tid \in Ids /\ Tid # NoId /\ Tid \in Seen /\ NoId \in Seen /\ Now \in Nat \X Nat
           /\ NoId \in Ids
<1>1. Tid \in Ids /\ Tid # NoId /\ file \in Nat /\ file >= 1 /\ attempt \in Nat
  BY TidType, FilesIsNat, SessionAssumption DEF Inv, TypeOK
<1>2. NoId \in Ids /\ NoId[1] < file /\ Tid[1] = file /\ Tid[2] = attempt
  BY <1>1 DEF NoId, Ids, Tid
<1>3. Tid \in Seen /\ NoId \in Seen
  BY <1>1, <1>2 DEF Seen
<1>4. Now \in Nat \X Nat
  BY SessionAssumption DEF Now, Inv, TypeOK, Rounds
<1> QED
  BY <1>1, <1>2, <1>3, <1>4

\* The attempt goes on.
LEMMA SameAttempt ==
    ASSUME UNCHANGED <<file, attempt>>
    PROVE  Tid' = Tid /\ Seen' = Seen
  BY DEF Tid, Seen

LEMMA SameStage ==
    ASSUME UNCHANGED <<pc, file, attempt, section, round, centrals>>
    PROVE  /\ Tid' = Tid /\ Seen' = Seen /\ Past' = Past /\ Now' = Now
           /\ Begins' = Begins /\ Active' = Active
  BY DEF Tid, Seen, Past, Now, Begins, Active

\* A step that leaves the proxy where it is.
LEMMA SameStageFits ==
    ASSUME UNCHANGED <<pc, file, attempt, section, round, centrals>>,
           \A r \in Receivers :
              Fits(Begins, Active, pc, Tid, Seen, Past, Now,
                   info'[r], conn'[r], link'[r], cur'[r], phase'[r], drain'[r], task'[r])
    PROVE  AllFit'
<1>1. ASSUME NEW r \in Receivers PROVE FitsAt(r)'
  BY SameStage DEF FitsAt
<1> QED
  BY <1>1 DEF AllFit

------------------------------------------------------------------------------
(* The control of the proxy *)

\* What every step keeps.
Controlled == Control' /\ (IdsAreFresh' => IdsAreFresh)

NoTodo(t) == \A r \in Receivers : t[r] # "todo"

LEMMA ControlFacts ==
    ASSUME Inv, Control
    PROVE  /\ mode \in {"direct", "central"} /\ centrals \in Nat /\ MaxCentrals \in Nat
           /\ attempt \in Nat /\ cached \in BOOLEAN
           /\ pc # "backfill" => NoTodo(task)
           /\ pc \notin {"meta", "collect", "barrier"} => batch = <<>>
  BY SessionAssumption DEF Inv, TypeOK, Control, NoTodo

\* A step that leaves the proxy where it is.
LEMMA ControlSame ==
    ASSUME Inv, Control, UNCHANGED <<mode, pc, attempt, cached, after, centrals>>,
           task' = task \/ pc = "backfill" \/ NoTodo(task'),
           batch' = batch \/ pc \in {"meta", "collect", "barrier"}
    PROVE  Controlled
  BY DEF Control, Controlled, Begins, Active, IdsAreFresh, NoTodo

\* A step of an attempt.
LEMMA ControlOn ==
    ASSUME Inv, Control, UNCHANGED <<mode, centrals>>,
           pc = "begin" \/ Active, Active', mode = "direct" => after' # "rethrow",
           NoTodo(task') \/ pc' = "backfill",
           batch' = <<>>
    PROVE  Controlled
  BY DEF Control, Controlled, Begins, Active, IdsAreFresh, NoTodo

\* A step that leaves a file that was begun, for another stage than a begin.
LEMMA ControlLeaves ==
    ASSUME Inv, Control, UNCHANGED <<mode, centrals>>,
           pc = "begin" \/ Active \/ pc = "end", pc' \in {"away", "exited", "over", "end"},
           mode = "direct" => pc' # "away" /\ after' # "rethrow",
           NoTodo(task'), batch' = <<>>
    PROVE  Controlled
<1>1. mode \in {"direct", "central"} /\ centrals \in Nat /\ MaxCentrals \in Nat
  BY ControlFacts
<1>2. ~Begins'
  BY <1>1 DEF Control, Begins, Active
<1> QED
  BY <1>1, <1>2 DEF Control, Controlled, Begins, Active, IdsAreFresh, NoTodo

\* The next begin.
LEMMA ControlBegins ==
    ASSUME Inv, Control, UNCHANGED <<mode, centrals, after>>,
           pc = "begin" \/ Active, pc' = "begin",
           ~cached' \/ attempt' # 0,
           NoTodo(task'), batch' = <<>>
    PROVE  Controlled
<1>1. mode \in {"direct", "central"} /\ centrals \in Nat /\ MaxCentrals \in Nat
  BY ControlFacts
<1> QED
  BY <1>1 DEF Control, Controlled, Begins, Active, IdsAreFresh, NoTodo

LEMMA RegisterControl == ASSUME Inv, Control, NEW r \in Receivers, Register(r) PROVE Controlled
<1>1. /\ mode \in {"direct", "central"} /\ centrals \in Nat /\ MaxCentrals \in Nat /\ batch = <<>>
      /\ NoTodo(task) /\ pc = "register"
  BY ControlFacts DEF Register
<1>2. /\ UNCHANGED <<mode, file, attempt, cached, after, centrals, batch, task>>
      /\ pc' \in {"register", "away", "begin"} /\ (pc' = "away" => mode = "central")
      /\ (pc' = "begin" => mode = "direct")
  BY <1>1 DEF Register, attemptVars
<1> QED
  BY <1>1, <1>2 DEF Control, Controlled, Begins, Active, IdsAreFresh, NoTodo

LEMMA WaitControl ==
    ASSUME Inv, Control, Poll \/ ReadNothing \/ ReadReport \/ ReadReady \/ ReadMetaReady \/ WaitThrows
    PROVE  Controlled
<1>1. CASE Poll
  BY <1>1, ControlSame DEF Poll, Waiting, attemptVars
<1>2. CASE ReadNothing
  <2>1. pc \in {"meta", "collect", "barrier"}
    BY <1>2, ControlFacts DEF ReadNothing
  <2> QED
    BY <1>2, <2>1, ControlSame DEF ReadNothing, attemptVars, rcvVars
<1>3. CASE ReadReport
  BY <1>3, ControlSame DEF ReadReport, attemptVars, rcvVars
<1>4. CASE ReadReady
  BY <1>4, ControlSame DEF ReadReady, attemptVars, rcvVars
<1>5. CASE WaitThrows
  <2>1. /\ batch = <<>> /\ NoTodo(task) /\ pc \in {"meta", "barrier"}
    BY <1>5, ControlFacts DEF WaitThrows, WaitExpires, Waiting
  <2>2. /\ UNCHANGED <<mode, centrals, after, task, batch>>
        /\ pc' = IF mode = "direct" THEN "exited" ELSE "away"
    BY <1>5 DEF WaitThrows, attemptVars, Throws
  <2> QED
    BY <2>1, <2>2, ControlLeaves DEF Control, Active
<1>6. CASE ReadMetaReady
  <2>1. NoTodo(task) /\ pc = "meta" /\ UNCHANGED <<mode, attempt, cached, after, centrals, task>>
    BY <1>6, ControlFacts DEF ReadMetaReady, attemptVars
  <2>2. \/ pc' = pc
        \/ batch' = <<>> /\ pc' = IF mode = "direct" THEN "exited" ELSE "away"
    BY <1>6 DEF ReadMetaReady, Throws
  <2>3. CASE pc' = pc
    BY <2>1, <2>3, ControlSame
  <2>4. CASE batch' = <<>> /\ pc' = IF mode = "direct" THEN "exited" ELSE "away"
    BY <2>1, <2>4, ControlLeaves DEF Control, Active
  <2> QED
    BY <2>2, <2>3, <2>4
<1> QED
  BY <1>1, <1>2, <1>3, <1>4, <1>5, <1>6

LEMMA AttemptControl ==
    ASSUME Inv, Control, \/ Begin \/ AllReady \/ SendSection \/ CollectMismatch \/ CloseSection
                         \/ RepairRound \/ RoundsExhausted \/ SectionsEnd \/ CentralFails
    PROVE  Controlled
<1>1. CASE Begin
  <2>1. NoTodo(task) /\ batch = <<>> /\ pc = "begin"
    BY <1>1, ControlFacts DEF Begin
  <2> QED
    BY <1>1, <2>1, ControlOn DEF Begin, Active, Control
<1>2. CASE AllReady
  <2>1. NoTodo(task) /\ batch = <<>> /\ pc = "meta"
    BY <1>2, ControlFacts DEF AllReady
  <2> QED
    BY <1>2, <2>1, ControlOn DEF AllReady, Active, Control, attemptVars
<1>3. CASE SendSection
  <2>1. NoTodo(task) /\ batch = <<>> /\ pc = "section"
    BY <1>3, ControlFacts DEF SendSection
  <2> QED
    BY <1>3, <2>1, ControlOn DEF SendSection, Active, Control
<1>4. CASE CollectMismatch
  <2>1. NoTodo(task) /\ batch = <<>> /\ pc = "collect"
    BY <1>4, ControlFacts DEF CollectMismatch, CollectionEnds
  <2>2. /\ UNCHANGED <<mode, centrals, batch, task>> /\ pc' \in {"section", "barrier"}
        /\ mode = "direct" => after' # "rethrow"
    BY <1>4 DEF CollectMismatch, EnterBarrier, FromCentral
  <2> QED
    BY <2>1, <2>2, ControlOn DEF Active
<1>5. CASE CloseSection
  <2>1. NoTodo(task) /\ batch = <<>> /\ pc = "collect"
    BY <1>5, ControlFacts DEF CloseSection, CollectionEnds
  <2> QED
    BY <1>5, <2>1, ControlOn DEF CloseSection, Active, Control
<1>6. CASE RepairRound
  <2>1. NoTodo(task) /\ batch = <<>> /\ pc = "collect"
    BY <1>6, ControlFacts DEF RepairRound, CollectionEnds
  <2> QED
    BY <1>6, <2>1, ControlOn DEF RepairRound, Active, Control
<1>7. CASE RoundsExhausted
  <2>1. NoTodo(task) /\ batch = <<>> /\ pc = "collect"
    BY <1>7, ControlFacts DEF RoundsExhausted, CollectionEnds
  <2>2. /\ UNCHANGED <<mode, centrals, batch>> /\ pc' \in {"backfill", "barrier"}
        /\ mode = "direct" => after' # "rethrow"
        /\ pc' = "backfill" \/ task' = task
    BY <1>7 DEF RoundsExhausted, EnterBarrier, FromCentral, Control
  <2> QED
    BY <2>1, <2>2, ControlOn DEF Active
<1>8. CASE SectionsEnd
  <2>1. NoTodo(task) /\ batch = <<>> /\ pc = "section"
    BY <1>8, ControlFacts DEF SectionsEnd
  <2>2. /\ UNCHANGED <<mode, centrals, batch>> /\ pc' \in {"backfill", "barrier"}
        /\ mode = "direct" => after' # "rethrow"
        /\ pc' = "backfill" \/ task' = task
    BY <1>8 DEF SectionsEnd, EnterBarrier, FromCentral, Control
  <2> QED
    BY <2>1, <2>2, ControlOn DEF Active
<1>9. CASE CentralFails
  <2>1. NoTodo(task) /\ batch = <<>> /\ pc = "section" /\ mode = "central"
    BY <1>9, ControlFacts DEF CentralFails, FromCentral
  <2> QED
    BY <1>9, <2>1, ControlOn DEF CentralFails, EnterBarrier, Active
<1> QED
  BY <1>1, <1>2, <1>3, <1>4, <1>5, <1>6, <1>7, <1>8, <1>9

LEMMA BackfillControl ==
    ASSUME Inv, Control, \/ \E r \in Receivers : BackfillSend(r) \/ BackfillRead(r) \/ BackfillGivesUp(r)
                         \/ BackfillEnds \/ StatusLost
    PROVE  Controlled
<1>1. ASSUME NEW r \in Receivers, BackfillSend(r) \/ BackfillRead(r) \/ BackfillGivesUp(r)
      PROVE  Controlled
  BY <1>1, ControlSame DEF BackfillSend, BackfillRead, BackfillGivesUp, attemptVars
<1>2. CASE BackfillEnds
  <2>1. batch = <<>> /\ pc = "backfill"
    BY <1>2, ControlFacts DEF BackfillEnds, Joined
  <2>2. /\ UNCHANGED <<mode, centrals, batch>> /\ pc' = "barrier" /\ after' \in {"return", "verdict"}
        /\ task' = [r \in Receivers |-> "none"]
    BY <1>2 DEF BackfillEnds, EnterBarrier
  <2>3. NoTodo(task')
    BY <2>2 DEF NoTodo
  <2> QED
    BY <2>1, <2>2, <2>3, ControlOn DEF Active
<1>3. CASE StatusLost
  <2>1. batch = <<>> /\ pc = "backfill" /\ mode = "central"
    BY <1>3, ControlFacts DEF StatusLost, Joined, FromCentral
  <2>2. /\ UNCHANGED <<mode, centrals, batch>> /\ pc' = "away"
        /\ task' = [r \in Receivers |-> "none"]
    BY <1>3 DEF StatusLost
  <2>3. NoTodo(task')
    BY <2>2 DEF NoTodo
  <2> QED
    BY <2>1, <2>2, <2>3, ControlLeaves DEF Active
<1> QED
  BY <1>1, <1>2, <1>3

LEMMA BetweenControl ==
    ASSUME Inv, Control, \/ Rethrow \/ Retry \/ FileEnds \/ CentralConnects \/ CachedFile
                         \/ SessionEnd \/ SessionEndLost
    PROVE  Controlled
<1>0. /\ mode \in {"direct", "central"} /\ centrals \in Nat /\ MaxCentrals \in Nat
      /\ attempt \in Nat
  BY ControlFacts
<1>1. CASE Rethrow
  <2>1. NoTodo(task) /\ batch = <<>> /\ pc = "barrier" /\ mode # "direct"
    BY <1>1, ControlFacts DEF Rethrow, BarrierPassed, Control
  <2> QED
    BY <1>1, <2>1, ControlLeaves DEF Rethrow, attemptVars, Active
<1>2. CASE Retry
  <2>1. NoTodo(task) /\ batch = <<>> /\ pc = "barrier"
    BY <1>2, ControlFacts DEF Retry, BarrierPassed
  <2>2. attempt' = attempt + 1 /\ attempt' # 0
    BY <1>2, <1>0 DEF Retry
  <2> QED
    BY <1>2, <2>1, <2>2, ControlBegins DEF Retry, Active
<1>3. CASE FileEnds
  <2>1. NoTodo(task) /\ batch = <<>> /\ pc = "barrier"
    BY <1>3, ControlFacts DEF FileEnds, BarrierPassed
  <2>2. UNCHANGED <<mode, centrals, batch, after, task>>
    BY <1>3 DEF FileEnds
  <2>3. \/ pc' = "begin" /\ ~cached'
        \/ pc' = "end"
        \/ pc' = "away" /\ mode = "central"
    BY <1>3 DEF FileEnds, FileDone
  <2>4. CASE pc' = "begin" /\ ~cached'
    BY <2>1, <2>2, <2>4, ControlBegins DEF Active
  <2>5. CASE pc' = "end"
    BY <2>1, <2>2, <2>5, ControlLeaves DEF Active, Control
  <2>6. CASE pc' = "away" /\ mode = "central"
    BY <2>1, <2>2, <2>6, ControlLeaves DEF Active
  <2> QED
    BY <2>3, <2>4, <2>5, <2>6
<1>4. CASE CentralConnects
  <2>1. /\ NoTodo(task) /\ batch = <<>> /\ pc = "away" /\ mode = "central"
    BY <1>4, <1>0, ControlFacts DEF CentralConnects, Control
  <2>2. /\ UNCHANGED <<mode, batch, after, task, cached>> /\ pc' = "begin" /\ attempt' = 0
        /\ centrals' = centrals - 1 /\ centrals > 0
    BY <1>4 DEF CentralConnects
  <2>3. centrals <= MaxCentrals
    BY <1>0 DEF Inv, TypeOK
  <2>4. centrals' + 1 >= MaxCentrals => centrals = MaxCentrals /\ centrals + 1 >= MaxCentrals
    BY <1>0, <2>2, <2>3
  <2>5. centrals' < MaxCentrals
    BY <1>0, <2>2, <2>3
  <2>6. IdsAreFresh' => IdsAreFresh /\ Begins /\ attempt = 0
    BY <2>1, <2>2, <2>4 DEF IdsAreFresh, Begins, Control
  <2>7. IdsAreFresh' => ~cached'
    BY <2>2, <2>6 DEF Control
  <2> QED
    BY <2>1, <2>2, <2>5, <2>6, <2>7 DEF Controlled, Control, Active, Begins, NoTodo
<1>5. CASE CachedFile
  <2>1. NoTodo(task) /\ batch = <<>> /\ pc = "begin" /\ mode = "central"
    BY <1>5, ControlFacts DEF CachedFile, FromCentral
  <2>2. UNCHANGED <<mode, centrals, batch, after, task>>
    BY <1>5 DEF CachedFile
  <2>3. \/ pc' = "begin" /\ ~cached'
        \/ pc' = "end"
        \/ pc' = "away"
    BY <1>5 DEF CachedFile, FileDone
  <2>4. CASE pc' = "begin" /\ ~cached'
    BY <2>1, <2>2, <2>4, ControlBegins DEF Active
  <2>5. CASE pc' = "end"
    BY <2>1, <2>2, <2>5, ControlLeaves DEF Active, Control
  <2>6. CASE pc' = "away"
    BY <2>1, <2>2, <2>6, ControlLeaves DEF Active
  <2> QED
    BY <2>3, <2>4, <2>5, <2>6
<1>6. CASE SessionEnd
  <2>1. NoTodo(task) /\ batch = <<>> /\ pc = "end"
    BY <1>6, ControlFacts DEF SessionEnd
  <2> QED
    BY <1>6, <2>1, ControlLeaves DEF SessionEnd, attemptVars, Control
<1>7. CASE SessionEndLost
  <2>1. /\ NoTodo(task) /\ batch = <<>> /\ pc = "end" /\ mode = "central" /\ centrals < MaxCentrals
    BY <1>7, ControlFacts DEF SessionEndLost, Control
  <2>2. /\ UNCHANGED <<mode, batch, after, task, cached>> /\ pc' = "away" /\ centrals' = 0
    BY <1>7 DEF SessionEndLost, attemptVars
  <2>3. centrals' # MaxCentrals /\ (centrals' + 1 >= MaxCentrals => centrals + 1 >= MaxCentrals)
    BY <1>0, <2>1, <2>2
  <2> QED
    BY <2>1, <2>2, <2>3 DEF Controlled, Control, Active, Begins, NoTodo, IdsAreFresh
<1> QED
  BY <1>1, <1>2, <1>3, <1>4, <1>5, <1>6, <1>7

LEMMA ReceiverControl ==
    ASSUME Inv, Control, NEW r \in Receivers, ReceiverStep(r) \/ Break(r) \/ Die(r)
    PROVE  Controlled
<1>1. UNCHANGED <<attemptVars, pc, batch, task, centrals>>
  BY DEF ReceiverStep, RcvFrame, RcvClash, RcvSessionEnd, RcvReport, Reconnect, SeesClose, Break, Die
<1> QED
  BY <1>1, ControlSame DEF attemptVars

LEMMA ControlNext == ASSUME Inv, Control, [Next]_vars PROVE Controlled
<1>1. CASE UNCHANGED vars
  BY <1>1, ControlSame DEF vars, attemptVars
<1>2. CASE ProxyStep
  BY <1>2, RegisterControl, WaitControl, AttemptControl, BackfillControl, BetweenControl DEF ProxyStep
<1>3. CASE \E r \in Receivers : ReceiverStep(r) \/ Break(r) \/ Die(r)
  BY <1>3, ReceiverControl
<1> QED
  BY <1>1, <1>2, <1>3 DEF Next, Stopped

------------------------------------------------------------------------------
(* The steps of a receiver keep it *)

\* A step of one receiver.
LEMMA OneReceiverFits ==
    ASSUME AllFit, UNCHANGED <<attemptVars, pc, info, task, centrals>>, NEW r \in Receivers,
           \A q \in Receivers \ {r} :
              /\ conn'[q] = conn[q] /\ link'[q] = link[q] /\ cur'[q] = cur[q]
              /\ phase'[q] = phase[q] /\ drain'[q] = drain[q],
           Fits(Begins, Active, pc, Tid, Seen, Past, Now,
                info[r], conn'[r], link'[r], cur'[r], phase'[r], drain'[r], task[r])
    PROVE  AllFit'
<1>1. UNCHANGED <<pc, file, attempt, section, round, centrals>>
  BY DEF attemptVars
<1>2. ASSUME NEW q \in Receivers
      PROVE  Fits(Begins, Active, pc, Tid, Seen, Past, Now,
                  info'[q], conn'[q], link'[q], cur'[q], phase'[q], drain'[q], task'[q])
  <2>1. CASE q = r
    BY <2>1
  <2>2. CASE q # r
    BY <2>2 DEF AllFit, FitsAt
  <2> QED
    BY <2>1, <2>2
<1> QED
  BY <1>1, <1>2, SameStageFits

\* It reads a frame.
LEMMA MeetsFits ==
    ASSUME Inv, AllFit, UNCHANGED <<attemptVars, pc, info, task, centrals, link>>,
           NEW r \in Receivers, link[r] = "up", conn[r].toRcv # <<>>,
           NEW id, NEW ph, NEW says \in Seq(ProxyFrames), Becomes(r, id, ph, says),
           \A q \in Receivers \ {r} : drain'[q] = drain[q],
           Meets(Head(conn[r].toRcv), cur[r], phase[r], drain[r], id, ph, drain'[r], says)
    PROVE  AllFit'
<1>1. /\ conn \in [Receivers -> Conns] /\ cur \in [Receivers -> Ids]
      /\ phase \in [Receivers -> {"idle", "receiving", "awaiting", "shafailed"}]
  BY DEF Inv, TypeOK
<1>2. /\ cur'[r] = id /\ phase'[r] = ph
      /\ \A q \in Receivers \ {r} : cur'[q] = cur[q] /\ phase'[q] = phase[q] /\ conn'[q] = conn[q]
      /\ conn'[r] = [conn[r] EXCEPT !.toRcv = Tail(@),
                                    !.toProxy = IF conn[r].open THEN @ \o says ELSE @]
  BY <1>1 DEF Becomes
<1>3. conn[r] \in Conns
  BY <1>1
<1>4. /\ conn'[r].open = conn[r].open /\ conn'[r].toRcv = Tail(conn[r].toRcv)
      /\ conn'[r].toProxy = IF conn[r].open THEN conn[r].toProxy \o says ELSE conn[r].toProxy
  BY <1>2, <1>3 DEF Conns
<1>5. /\ Tid # NoId /\ NoId \in Seen /\ Now \in Nat \X Nat
  BY IdTypes
<1>6. Fits(Begins, Active, pc, Tid, Seen, Past, Now,
           info[r], conn[r], "up", cur[r], phase[r], drain[r], task[r])
  BY DEF AllFit, FitsAt
<1>7. Fits(Begins, Active, pc, Tid, Seen, Past, Now,
           info[r], conn'[r], "up", id, ph, drain'[r], task[r])
  BY <1>3, <1>4, <1>5, <1>6, ReadFits
<1> QED
  BY <1>2, <1>7, OneReceiverFits

LEMMA SaysType ==
    ASSUME NEW id \in Ids
    PROVE  /\ <<>> \in Seq(ProxyFrames)
           /\ \A type \in {"META_READY", "RECEIVER_COMPLETE", "RECEIVER_READY"} :
                 <<Frame(type, id)>> \in Seq(ProxyFrames)
           /\ <<SectionStatus(id, 0, 0, "Failed")>> \in Seq(ProxyFrames)
           /\ \A s \in Nat : \A k \in Rounds : \A code \in {"Missing", "Complete", "Failed"} :
                /\ <<SectionStatus(id, s, k, code)>> \in Seq(ProxyFrames)
                /\ <<SectionStatus(id, s, k, code), Frame("RECEIVER_COMPLETE", id)>>
                      \in Seq(ProxyFrames)
<1>1. \A type \in {"META_READY", "RECEIVER_COMPLETE", "RECEIVER_READY"} : Frame(type, id) \in ProxyFrames
  BY DEF Frame, ProxyFrames
<1>2. \A s \in Nat : \A k \in Rounds : \A code \in {"Missing", "Complete", "Failed"} :
          SectionStatus(id, s, k, code) \in ProxyFrames
  BY DEF SectionStatus, ProxyFrames
<1>3. 0 \in Nat /\ 0 \in Rounds
  BY SessionAssumption DEF Rounds
<1> QED
  BY <1>1, <1>2, <1>3

LEMMA RcvFrameFits == ASSUME Inv, AllFit, NEW r \in Receivers, RcvFrame(r) PROVE AllFit'
<1> DEFINE f == Head(conn[r].toRcv)
<1>1. UNCHANGED <<attemptVars, pc, batch, task, info, link, centrals>>
  BY DEF RcvFrame
<1>2. link[r] = "up" /\ conn[r].toRcv # <<>>
  BY DEF RcvFrame, RcvFileMeta, RcvSectionEnd, RcvBackfill, RcvCompleteAck, RcvTransferResult, Receives
<1>3. f \in RcvFrames /\ f.id \in Ids
  BY <1>2, HeadType
<1>4. cur[r] \in Ids /\ drain \in [Receivers -> {<<>>} \cup (Nat \X Rounds)]
  BY DEF Inv, TypeOK
<1>5. ASSUME NEW id, NEW ph, NEW says \in Seq(ProxyFrames), Becomes(r, id, ph, says),
             \A q \in Receivers \ {r} : drain'[q] = drain[q],
             Meets(f, cur[r], phase[r], drain[r], id, ph, drain'[r], says)
      PROVE  AllFit'
  BY <1>1, <1>2, <1>5, MeetsFits
<1>6. CASE RcvFileMeta(r)
  <2>1. f.type = "FILE_META" /\ cur[r] \in {NoId, f.id}
    BY <1>6 DEF RcvFileMeta, Clashes, Receives
  <2>2. CASE cur[r] = f.id
    <3> DEFINE says == <<Frame(IF phase[r] = "awaiting" THEN "RECEIVER_COMPLETE" ELSE "META_READY",
                               cur[r])>>
    <3>1. Becomes(r, cur[r], phase[r], says) /\ drain' = drain
      BY <1>6, <2>2 DEF RcvFileMeta
    <3>2. says \in Seq(ProxyFrames)
      BY <1>4, SaysType
    <3>3. Meets(f, cur[r], phase[r], drain[r], cur[r], phase[r], drain'[r], says)
      BY <2>1, <2>2, <3>1 DEF Meets
    <3> QED
      BY <1>5, <3>1, <3>2, <3>3
  <2>3. CASE cur[r] # f.id
    <3>1. /\ Becomes(r, f.id, "receiving", <<Frame("META_READY", f.id)>>)
          /\ drain' = [drain EXCEPT ![r] = <<>>]
      BY <1>6, <2>3 DEF RcvFileMeta
    <3>2. <<Frame("META_READY", f.id)>> \in Seq(ProxyFrames)
      BY <1>3, SaysType
    <3>3. drain'[r] = <<>> /\ \A q \in Receivers \ {r} : drain'[q] = drain[q]
      BY <1>4, <3>1
    <3>4. Meets(f, cur[r], phase[r], drain[r], f.id, "receiving", drain'[r],
                <<Frame("META_READY", f.id)>>)
      BY <2>1, <2>3, <3>3 DEF Meets
    <3> QED
      BY <1>5, <3>1, <3>2, <3>3, <3>4
  <2> QED
    BY <2>2, <2>3
<1>7. CASE RcvSectionEnd(r)
  <2>1. /\ f.type = "SECTION_END" /\ Becomes(r, cur[r], phase[r], <<>>)
        /\ drain' = IF cur[r] = f.id /\ phase[r] = "receiving"
                    THEN [drain EXCEPT ![r] = <<f.section, f.round>>] ELSE drain
    BY <1>7 DEF RcvSectionEnd, Receives
  <2>2. /\ drain'[r] = IF cur[r] = f.id /\ phase[r] = "receiving" THEN <<f.section, f.round>>
                       ELSE drain[r]
        /\ \A q \in Receivers \ {r} : drain'[q] = drain[q]
    BY <1>4, <2>1
  <2>3. Meets(f, cur[r], phase[r], drain[r], cur[r], phase[r], drain'[r], <<>>)
    BY <2>1, <2>2 DEF Meets
  <2> QED
    BY <1>4, <1>5, <2>1, <2>2, <2>3, SaysType
<1>8. CASE RcvBackfill(r)
  <2>1. f.type = "BACKFILL" /\ drain' = drain
    BY <1>8 DEF RcvBackfill, Receives
  <2>2. \/ Becomes(r, cur[r], phase[r], <<>>)
        \/ /\ cur[r] = f.id /\ phase[r] = "receiving"
           /\ Becomes(r, cur[r], "awaiting", <<Frame("RECEIVER_COMPLETE", cur[r])>>)
        \/ /\ cur[r] = f.id /\ phase[r] = "receiving"
           /\ \E ph \in {"receiving", "shafailed"} :
                 Becomes(r, cur[r], ph, <<SectionStatus(cur[r], 0, 0, "Failed")>>)
    BY <1>8 DEF RcvBackfill
  <2>3. CASE Becomes(r, cur[r], phase[r], <<>>)
    <3>1. Meets(f, cur[r], phase[r], drain[r], cur[r], phase[r], drain'[r], <<>>)
      BY <2>1 DEF Meets, Drops
    <3> QED
      BY <1>4, <1>5, <2>1, <2>3, <3>1, SaysType
  <2>4. CASE /\ cur[r] = f.id /\ phase[r] = "receiving"
             /\ Becomes(r, cur[r], "awaiting", <<Frame("RECEIVER_COMPLETE", cur[r])>>)
    <3>1. Meets(f, cur[r], phase[r], drain[r], cur[r], "awaiting", drain'[r],
                <<Frame("RECEIVER_COMPLETE", cur[r])>>)
      BY <2>1, <2>4 DEF Meets
    <3>2. <<Frame("RECEIVER_COMPLETE", cur[r])>> \in Seq(ProxyFrames)
      BY <1>4, SaysType
    <3> QED
      BY <1>5, <2>1, <2>4, <3>1, <3>2
  <2>5. ASSUME NEW ph \in {"receiving", "shafailed"}, cur[r] = f.id, phase[r] = "receiving",
               Becomes(r, cur[r], ph, <<SectionStatus(cur[r], 0, 0, "Failed")>>)
        PROVE  AllFit'
    <3>1. Meets(f, cur[r], phase[r], drain[r], cur[r], ph, drain'[r],
                <<SectionStatus(cur[r], 0, 0, "Failed")>>)
      BY <2>1, <2>5 DEF Meets
    <3>2. <<SectionStatus(cur[r], 0, 0, "Failed")>> \in Seq(ProxyFrames)
      BY <1>4, SaysType
    <3> QED
      BY <1>5, <2>1, <2>5, <3>1, <3>2
  <2> QED
    BY <2>2, <2>3, <2>4, <2>5
<1>9. ASSUME f.type \in {"COMPLETE_ACK", "TRANSFER_FAILED"}, cur[r] \in {NoId, f.id}, Resets(r)
      PROVE  AllFit'
  <2>1. /\ Becomes(r, NoId, "idle", <<Frame("RECEIVER_READY", f.id)>>)
        /\ drain' = [drain EXCEPT ![r] = <<>>]
    BY <1>9 DEF Resets
  <2>2. drain'[r] = <<>> /\ \A q \in Receivers \ {r} : drain'[q] = drain[q]
    BY <1>4, <2>1
  <2>3. Meets(f, cur[r], phase[r], drain[r], NoId, "idle", drain'[r], <<Frame("RECEIVER_READY", f.id)>>)
    BY <1>9, <2>2 DEF Meets
  <2>4. <<Frame("RECEIVER_READY", f.id)>> \in Seq(ProxyFrames)
    BY <1>3, SaysType
  <2> QED
    BY <1>5, <2>1, <2>2, <2>3, <2>4
<1>10. ASSUME f.type # "FILE_META", ~Drops(f, cur[r], phase[r], drain[r]), Ignores(r) PROVE AllFit'
  <2>1. Becomes(r, cur[r], phase[r], <<>>) /\ drain' = drain
    BY <1>10 DEF Ignores
  <2>2. Meets(f, cur[r], phase[r], drain[r], cur[r], phase[r], drain'[r], <<>>)
    BY <1>10, <2>1 DEF Meets
  <2> QED
    BY <1>4, <1>5, <2>1, <2>2, SaysType
<1>11. CASE RcvCompleteAck(r)
  <2>1. /\ f.type = "COMPLETE_ACK"
        /\ IF cur[r] = f.id /\ phase[r] = "awaiting" THEN Resets(r) ELSE Ignores(r)
    BY <1>11 DEF RcvCompleteAck, Receives
  <2>2. CASE cur[r] = f.id /\ phase[r] = "awaiting"
    BY <1>9, <2>1, <2>2
  <2>3. CASE ~(cur[r] = f.id /\ phase[r] = "awaiting")
    <3>1. ~Drops(f, cur[r], phase[r], drain[r])
      BY <2>1, <2>3 DEF Drops
    <3> QED
      BY <1>10, <2>1, <2>3, <3>1
  <2> QED
    BY <2>2, <2>3
<1>12. CASE RcvTransferResult(r)
  <2>1. /\ f.type = "TRANSFER_FAILED"
        /\ IF cur[r] \in {NoId, f.id} THEN Resets(r) ELSE Ignores(r)
    BY <1>12 DEF RcvTransferResult, Receives
  <2>2. CASE cur[r] \in {NoId, f.id}
    BY <1>9, <2>1, <2>2
  <2>3. CASE cur[r] \notin {NoId, f.id}
    <3>1. ~Drops(f, cur[r], phase[r], drain[r])
      BY <2>1, <2>3 DEF Drops
    <3> QED
      BY <1>10, <2>1, <2>3, <3>1
  <2> QED
    BY <2>2, <2>3
<1> QED
  BY <1>6, <1>7, <1>8, <1>11, <1>12 DEF RcvFrame

LEMMA RcvReportFits == ASSUME Inv, AllFit, NEW r \in Receivers, RcvReport(r) PROVE AllFit'
<1>1. /\ conn \in [Receivers -> Conns] /\ cur[r] \in Ids /\ Now \in Nat \X Nat
      /\ phase \in [Receivers -> {"idle", "receiving", "awaiting", "shafailed"}]
      /\ drain \in [Receivers -> {<<>>} \cup (Nat \X Rounds)]
  BY IdTypes DEF Inv, TypeOK
<1>2. /\ UNCHANGED <<attemptVars, pc, info, task, centrals, link, cur>>
      /\ link[r] = "up" /\ drain[r] \in Nat \X Rounds /\ drain' = [drain EXCEPT ![r] = <<>>]
  BY <1>1 DEF RcvReport
<1>3. drain[r][1] \in Nat /\ drain[r][2] \in Rounds
  BY <1>2
<1>4. PICK h2, says :
        /\ Reports(cur[r], drain[r], h2, says) /\ says \in Seq(ProxyFrames)
        /\ phase' = [phase EXCEPT ![r] = h2]
        /\ conn' = [conn EXCEPT ![r].toProxy = IF conn[r].open THEN @ \o says ELSE @]
  <2>1. \/ \E h2 \in {"receiving", "shafailed"}, code \in {"Missing", "Complete", "Failed"} :
              /\ phase' = [phase EXCEPT ![r] = h2]
              /\ conn' = [conn EXCEPT ![r].toProxy =
                    IF conn[r].open THEN @ \o <<SectionStatus(cur[r], drain[r][1], drain[r][2], code)>>
                    ELSE @]
        \/ /\ phase' = [phase EXCEPT ![r] = "awaiting"]
           /\ conn' = [conn EXCEPT ![r].toProxy =
                 IF conn[r].open
                 THEN @ \o <<SectionStatus(cur[r], drain[r][1], drain[r][2], "Complete"),
                             Frame("RECEIVER_COMPLETE", cur[r])>>
                 ELSE @]
    BY DEF RcvReport
  <2>2. ASSUME NEW h2 \in {"receiving", "shafailed"}, NEW code \in {"Missing", "Complete", "Failed"}
        PROVE  LET says == <<SectionStatus(cur[r], drain[r][1], drain[r][2], code)>>
               IN  Reports(cur[r], drain[r], h2, says) /\ says \in Seq(ProxyFrames)
    BY <1>1, <1>3, SaysType DEF Reports
  <2>3. LET says == <<SectionStatus(cur[r], drain[r][1], drain[r][2], "Complete"),
                      Frame("RECEIVER_COMPLETE", cur[r])>>
        IN  Reports(cur[r], drain[r], "awaiting", says) /\ says \in Seq(ProxyFrames)
    BY <1>1, <1>3, SaysType DEF Reports
  <2> QED
    BY <2>1, <2>2, <2>3
<1>5. /\ phase'[r] = h2 /\ drain'[r] = <<>>
      /\ \A q \in Receivers \ {r} : phase'[q] = phase[q] /\ conn'[q] = conn[q] /\ drain'[q] = drain[q]
      /\ conn'[r] = [conn[r] EXCEPT !.toProxy = IF conn[r].open THEN @ \o says ELSE @]
  BY <1>1, <1>2, <1>4
<1>6. conn[r] \in Conns
  BY <1>1
<1>7. /\ conn'[r].open = conn[r].open /\ conn'[r].toRcv = conn[r].toRcv
      /\ conn'[r].toProxy = IF conn[r].open THEN conn[r].toProxy \o says ELSE conn[r].toProxy
  BY <1>5, <1>6 DEF Conns
<1>8. Fits(Begins, Active, pc, Tid, Seen, Past, Now,
           info[r], conn[r], "up", cur[r], phase[r], drain[r], task[r])
  BY <1>2 DEF AllFit, FitsAt
<1>9. Fits(Begins, Active, pc, Tid, Seen, Past, Now,
           info[r], conn'[r], "up", cur[r], h2, <<>>, task[r])
  BY <1>1, <1>2, <1>4, <1>6, <1>7, <1>8, ReportFits
<1> QED
  BY <1>2, <1>5, <1>9, OneReceiverFits

\* A receiver loses its end of the connection, or what it was told.
LEMMA LostFits ==
    ASSUME Inv, AllFit, UNCHANGED <<attemptVars, pc, info, task, centrals>>, NEW r \in Receivers,
           \A q \in Receivers \ {r} :
              /\ conn'[q] = conn[q] /\ link'[q] = link[q] /\ cur'[q] = cur[q]
              /\ phase'[q] = phase[q] /\ drain'[q] = drain[q],
           \/ cur'[r] = cur[r] /\ phase'[r] = phase[r]
           \/ cur'[r] = NoId /\ phase'[r] = "idle" /\ drain'[r] = <<>>,
           drain'[r] = <<>> \/ (drain'[r] = drain[r] /\ link'[r] = "gone"), link'[r] # "up",
           conn'[r].open = conn[r].open, conn'[r].toRcv = <<>>,
           Messages(conn'[r].toProxy) \subseteq Messages(conn[r].toProxy),
           conn[r].open \/ conn'[r].toProxy = conn[r].toProxy
    PROVE  AllFit'
<1>1. Tid # NoId /\ NoId \in Seen
  BY IdTypes
<1>2. Fits(Begins, Active, pc, Tid, Seen, Past, Now,
           info[r], conn[r], link[r], cur[r], phase[r], drain[r], task[r])
  BY DEF AllFit, FitsAt
<1>3. ~conn'[r].open => conn'[r].toProxy = <<>>
  BY <1>2 DEF Fits, Steady
<1>4. Fits(Begins, Active, pc, Tid, Seen, Past, Now,
           info[r], conn'[r], link'[r], cur'[r], phase'[r], drain'[r], task[r])
  BY <1>1, <1>2, <1>3, LosesFits
<1> QED
  BY <1>4, OneReceiverFits

LEMMA CutFacts ==
    ASSUME Inv, NEW r \in Receivers, Cut(r)
    PROVE  /\ \A q \in Receivers \ {r} : conn'[q] = conn[q]
           /\ conn'[r].open = conn[r].open /\ conn'[r].toRcv = <<>>
           /\ Messages(conn'[r].toProxy) \subseteq Messages(conn[r].toProxy)
<1>1. conn \in [Receivers -> Conns] /\ conn[r] \in Conns
  BY DEF Inv, TypeOK
<1>2. PICK kept \in Arrived(r) .. Len(conn[r].toProxy), seen \in BOOLEAN :
        conn' = [conn EXCEPT ![r].toRcv = <<>>, ![r].eof = seen,
                             ![r].toProxy = SubSeq(@, 1, kept)]
  BY DEF Cut
<1>3. /\ \A q \in Receivers \ {r} : conn'[q] = conn[q]
      /\ conn'[r] = [conn[r] EXCEPT !.toRcv = <<>>, !.eof = seen, !.toProxy = SubSeq(@, 1, kept)]
  BY <1>1, <1>2
<1>4. /\ conn'[r].open = conn[r].open /\ conn'[r].toRcv = <<>>
      /\ conn'[r].toProxy = SubSeq(conn[r].toProxy, 1, kept)
  BY <1>1, <1>3 DEF Conns
<1>5. conn[r].toProxy \in Seq(ProxyFrames)
  BY <1>1 DEF Conns
<1>6. Len(conn[r].toProxy) \in Nat /\ Arrived(r) \in {0, 1}
  BY <1>5, LenProperties DEF Arrived
<1>7. kept \in Nat /\ kept <= Len(conn[r].toProxy)
  BY <1>6
<1>8. /\ DOMAIN SubSeq(conn[r].toProxy, 1, kept) = 1 .. kept
      /\ \A k \in 1 .. kept : SubSeq(conn[r].toProxy, 1, kept)[k] = conn[r].toProxy[k]
      /\ DOMAIN conn[r].toProxy = 1 .. Len(conn[r].toProxy)
  BY <1>5, <1>6, <1>7
<1>9. 1 .. kept \subseteq 1 .. Len(conn[r].toProxy)
  BY <1>6, <1>7
<1>10. Messages(SubSeq(conn[r].toProxy, 1, kept)) \subseteq Messages(conn[r].toProxy)
  BY <1>8, <1>9 DEF Messages
<1> QED
  BY <1>3, <1>4, <1>10

LEMMA LostSteps ==
    ASSUME Inv, AllFit, NEW r \in Receivers,
           RcvClash(r) \/ RcvSessionEnd(r) \/ Reconnect(r) \/ SeesClose(r) \/ Break(r) \/ Die(r)
    PROVE  AllFit'
<1>1. /\ conn \in [Receivers -> Conns] /\ conn[r] \in Conns /\ cur \in [Receivers -> Ids]
      /\ phase \in [Receivers -> {"idle", "receiving", "awaiting", "shafailed"}]
      /\ drain \in [Receivers -> {<<>>} \cup (Nat \X Rounds)]
      /\ link \in [Receivers -> {"up", "down", "pending", "gone"}]
  BY DEF Inv, TypeOK
<1>2. UNCHANGED <<attemptVars, pc, info, task, centrals>>
  BY DEF RcvClash, RcvSessionEnd, Reconnect, SeesClose, Break, Die
<1>3. CASE RcvClash(r)
  <2>1. /\ conn' = [conn EXCEPT ![r].toRcv = <<>>, ![r].eof = @ \/ conn[r].open]
        /\ link' = [link EXCEPT ![r] = "down"] /\ drain' = [drain EXCEPT ![r] = <<>>]
        /\ cur' = cur /\ phase' = phase
    BY <1>3 DEF RcvClash
  <2>2. conn'[r] = [conn[r] EXCEPT !.toRcv = <<>>, !.eof = @ \/ conn[r].open]
    BY <1>1, <2>1
  <2>3. /\ conn'[r].open = conn[r].open /\ conn'[r].toRcv = <<>> /\ conn'[r].toProxy = conn[r].toProxy
    BY <1>1, <2>2 DEF Conns
  <2>4. link'[r] = "down" /\ drain'[r] = <<>>
    BY <1>1, <2>1
  <2>5. \A q \in Receivers \ {r} : conn'[q] = conn[q] /\ link'[q] = link[q] /\ drain'[q] = drain[q]
    BY <1>1, <2>1
  <2> QED
    BY <1>2, <2>1, <2>3, <2>4, <2>5, LostFits
<1>4. CASE RcvSessionEnd(r)
  <2>1. /\ conn' = [conn EXCEPT ![r].toRcv = <<>>]
        /\ link' = [link EXCEPT ![r] = "gone"] /\ drain' = drain
        /\ cur' = cur /\ phase' = phase
    BY <1>4 DEF RcvSessionEnd
  <2>2. conn'[r] = [conn[r] EXCEPT !.toRcv = <<>>]
    BY <1>1, <2>1
  <2>3. /\ conn'[r].open = conn[r].open /\ conn'[r].toRcv = <<>> /\ conn'[r].toProxy = conn[r].toProxy
    BY <1>1, <2>2 DEF Conns
  <2>4. link'[r] = "gone"
    BY <1>1, <2>1
  <2>5. \A q \in Receivers \ {r} : conn'[q] = conn[q] /\ link'[q] = link[q]
    BY <1>1, <2>1
  <2> QED
    BY <1>2, <2>1, <2>3, <2>4, <2>5, LostFits
<1>5. CASE Reconnect(r)
  <2>1. link' = [link EXCEPT ![r] = "pending"] /\ UNCHANGED <<conn, drain, cur, phase>> /\ link[r] = "down"
    BY <1>5 DEF Reconnect
  <2>2. link'[r] = "pending" /\ \A q \in Receivers \ {r} : link'[q] = link[q]
    BY <1>1, <2>1
  <2>3. Steady(info[r], conn[r], link[r], cur[r], phase[r], drain[r])
    BY AtForms DEF SteadyAt
  <2>4. conn[r].toRcv = <<>> /\ drain[r] = <<>>
    BY <2>1, <2>3 DEF Steady
  <2> QED
    BY <1>2, <2>1, <2>2, <2>4, LostFits
<1>6. CASE SeesClose(r)
  <2>1. /\ conn' = [conn EXCEPT ![r].toRcv = <<>>]
        /\ link' = [link EXCEPT ![r] = "down"] /\ drain' = [drain EXCEPT ![r] = <<>>]
        /\ cur' = cur /\ phase' = phase
    BY <1>6 DEF SeesClose
  <2>2. conn'[r] = [conn[r] EXCEPT !.toRcv = <<>>]
    BY <1>1, <2>1
  <2>3. /\ conn'[r].open = conn[r].open /\ conn'[r].toRcv = <<>> /\ conn'[r].toProxy = conn[r].toProxy
    BY <1>1, <2>2 DEF Conns
  <2>4. link'[r] = "down" /\ drain'[r] = <<>>
    BY <1>1, <2>1
  <2>5. \A q \in Receivers \ {r} : conn'[q] = conn[q] /\ link'[q] = link[q] /\ drain'[q] = drain[q]
    BY <1>1, <2>1
  <2> QED
    BY <1>2, <2>1, <2>3, <2>4, <2>5, LostFits
<1>7. CASE Break(r)
  <2>1. /\ Cut(r) /\ conn[r].open
        /\ link' = [link EXCEPT ![r] = "down"] /\ drain' = [drain EXCEPT ![r] = <<>>]
        /\ cur' = cur /\ phase' = phase
    BY <1>7 DEF Break, Live
  <2>2. link'[r] = "down" /\ drain'[r] = <<>>
    BY <1>1, <2>1
  <2>3. \A q \in Receivers \ {r} : link'[q] = link[q] /\ drain'[q] = drain[q]
    BY <1>1, <2>1
  <2> QED
    BY <1>2, <2>1, <2>2, <2>3, CutFacts, LostFits
<1>8. CASE Die(r)
  <2>1. /\ Cut(r) /\ conn[r].open
        /\ link' = [link EXCEPT ![r] = "gone"] /\ drain' = [drain EXCEPT ![r] = <<>>]
        /\ cur' = [cur EXCEPT ![r] = NoId] /\ phase' = [phase EXCEPT ![r] = "idle"]
    BY <1>8 DEF Die, Live
  <2>2. link'[r] = "gone" /\ drain'[r] = <<>> /\ cur'[r] = NoId /\ phase'[r] = "idle"
    BY <1>1, <2>1
  <2>3. \A q \in Receivers \ {r} : /\ link'[q] = link[q] /\ drain'[q] = drain[q]
                                   /\ cur'[q] = cur[q] /\ phase'[q] = phase[q]
    BY <1>1, <2>1
  <2> QED
    BY <1>2, <2>1, <2>2, <2>3, CutFacts, LostFits
<1> QED
  BY <1>3, <1>4, <1>5, <1>6, <1>7, <1>8

LEMMA ReceiverFits ==
    ASSUME Inv, AllFit, NEW r \in Receivers, ReceiverStep(r) \/ Break(r) \/ Die(r)
    PROVE  AllFit'
  BY RcvFrameFits, RcvReportFits, LostSteps DEF ReceiverStep

------------------------------------------------------------------------------
(* The proxy moves, with one receiver or all of them *)

LEMMA OnNext ==
    ASSUME Active', \A r \in Receivers :
              On(pc', Tid', Seen', Past', Now',
                 info'[r], conn'[r], link'[r], cur'[r], phase'[r], drain'[r], task'[r])
    PROVE  AllFit'
<1>1. \A r \in Receivers : OnAt(r)'
  BY DEF OnAt
<1> QED
  BY <1>1, AtFormsNext

LEMMA SteadyNext ==
    ASSUME ~Begins', ~Active', \A r \in Receivers :
              Steady(info'[r], conn'[r], link'[r], cur'[r], phase'[r], drain'[r])
    PROVE  AllFit'
<1>1. \A r \in Receivers : SteadyAt(r)'
  BY DEF SteadyAt
<1> QED
  BY <1>1, AtFormsNext

LEMMA OffNext ==
    ASSUME ~Active', \A r \in Receivers :
              Off(Tid', Seen', info'[r], conn'[r], link'[r], cur'[r], phase'[r], drain'[r])
    PROVE  AllFit'
<1>1. CASE Begins'
  <2>1. \A r \in Receivers : OffAt(r)'
    BY DEF OffAt
  <2> QED
    BY <1>1, <2>1, AtFormsNext
<1>2. CASE ~Begins'
  BY <1>2, SteadyNext DEF Off
<1> QED
  BY <1>1, <1>2

LEMMA AllOn == ASSUME AllFit, Active PROVE \A r \in Receivers : OnAt(r) /\ SteadyAt(r)
  BY AtForms

LEMMA AllSteady == ASSUME AllFit PROVE \A r \in Receivers : SteadyAt(r)
  BY AtForms

\* A step of the proxy that concerns one receiver.
LEMMA OneOn ==
    ASSUME UNCHANGED <<pc, file, attempt, section, round, centrals, link, cur, phase, drain>>,
           AllFit, Active, NEW q \in Receivers,
           \A r \in Receivers \ {q} :
              info'[r] = info[r] /\ conn'[r] = conn[r] /\ task'[r] = task[r],
           On(pc, Tid, Seen, Past, Now,
              info'[q], conn'[q], link[q], cur[q], phase[q], drain[q], task'[q])
    PROVE  AllFit'
<1>1. Active' /\ Tid' = Tid /\ Seen' = Seen /\ Past' = Past /\ Now' = Now
  BY SameStage
<1>2. ASSUME NEW r \in Receivers
      PROVE  On(pc', Tid', Seen', Past', Now',
                info'[r], conn'[r], link'[r], cur'[r], phase'[r], drain'[r], task'[r])
  <2>1. CASE r = q
    BY <1>1, <2>1
  <2>2. CASE r # q
    <3>1. OnAt(r)
      BY AllOn
    <3> QED
      BY <1>1, <2>2, <3>1 DEF OnAt
  <2> QED
    BY <2>1, <2>2
<1> QED
  BY <1>1, <1>2, OnNext

\* It reads a frame.
LEMMA PopOn ==
    ASSUME Inv, UNCHANGED <<pc, file, attempt, section, round, centrals, link, cur, phase, drain>>,
           AllFit, Active, NEW q \in Receivers, conn[q].toProxy # <<>>,
           conn' = [conn EXCEPT ![q].toProxy = Tail(@)],
           \A r \in Receivers \ {q} : info'[r] = info[r] /\ task'[r] = task[r],
           On(pc, Tid, Seen, Past, Now,
              info'[q], conn[q], link[q], cur[q], phase[q], drain[q], task'[q])
    PROVE  AllFit'
<1>1. conn \in [Receivers -> Conns] /\ conn[q] \in Conns
  BY DEF Inv, TypeOK
<1>2. /\ conn'[q] = [conn[q] EXCEPT !.toProxy = Tail(@)]
      /\ \A r \in Receivers \ {q} : conn'[r] = conn[r]
  BY <1>1
<1>3. On(pc, Tid, Seen, Past, Now,
         info'[q], conn'[q], link[q], cur[q], phase[q], drain[q], task'[q])
  BY <1>1, <1>2, PoppedOn
<1> QED
  BY <1>2, <1>3, OneOn

LEMMA AckPlain ==
    ASSUME Inv, NEW p, NEW u, NEW d, NEW q
    PROVE  /\ Plain(Frame("COMPLETE_ACK", Tid), p, Tid, Seen, u, d, q)
           /\ Plain(Frame("TRANSFER_FAILED", Tid), p, Tid, Seen, u, d, q)
<1>1. Tid \in Ids /\ Tid \in Seen
  BY IdTypes
<1>2. Frame("COMPLETE_ACK", Tid) \in RcvFrames /\ Frame("TRANSFER_FAILED", Tid) \in RcvFrames
  BY <1>1 DEF Frame, RcvFrames
<1> QED
  BY <1>1, <1>2, FrameFacts DEF Plain

\* It reads RECEIVER_COMPLETE, and answers.
LEMMA ConfirmStep ==
    ASSUME Inv, UNCHANGED <<pc, file, attempt, section, round, centrals, link, cur, phase, drain>>,
           AllFit, pc \in {"meta", "collect", "backfill"},
           NEW q \in Receivers, conn[q].toProxy # <<>>,
           Head(conn[q].toProxy).type = "RECEIVER_COMPLETE", Head(conn[q].toProxy).id = Tid,
           info' = [info EXCEPT ![q] = Confirmed(@)],
           SendOn([conn EXCEPT ![q].toProxy = Tail(@)], link, Ack(q)),
           task'[q] # "todo", \A r \in Receivers \ {q} : task'[r] = task[r]
    PROVE  AllFit'
<1>1. /\ conn \in [Receivers -> Conns] /\ conn[q] \in Conns /\ info \in [Receivers -> Infos]
      /\ info[q] \in Infos
  BY DEF Inv, TypeOK
<1>2. Active
  BY DEF Active
<1> DEFINE popped == [conn EXCEPT ![q].toProxy = Tail(@)]
           e == [conn[q] EXCEPT !.toProxy = Tail(@)]
<1>3. popped[q] = e /\ \A r \in Receivers \ {q} : popped[r] = conn[r]
  BY <1>1
<1>4. PICK fails \in SUBSET Receivers :
        /\ \A r \in Receivers : conn'[r] = Sent(popped[r], link[r] = "up", Ack(q)[r], r \in fails)
        /\ \A r \in fails : Ack(q)[r] # <<>>
  BY DEF SendOn
<1>5. /\ Ack(q)[q] = <<Frame("COMPLETE_ACK", Tid)>>
      /\ \A r \in Receivers \ {q} : Ack(q)[r] = <<>>
  BY DEF Ack, NoFrames
<1>6. OnAt(q)
  BY <1>2, AllOn
<1>7. Head(conn[q].toProxy) \in Messages(conn[q].toProxy) /\ e \in Conns
  BY <1>1, PoppedOn
<1>8. Tid \in Seen
  BY IdTypes
<1>9. On(pc, Tid, Seen, Past, Now,
         Confirmed(info[q]), conn[q], link[q], cur[q], phase[q], drain[q], task'[q])
  BY <1>1, <1>6, <1>7, <1>8, ConfirmFits DEF OnAt
<1>10. On(pc, Tid, Seen, Past, Now,
         Confirmed(info[q]), e, link[q], cur[q], phase[q], drain[q], task'[q])
  BY <1>1, <1>9, PoppedOn
<1> HIDE DEF e
<1>11. Plain(Frame("COMPLETE_ACK", Tid), pc, Tid, Seen, cur[q], drain[q], e.toRcv)
  BY AckPlain
<1>12. On(pc, Tid, Seen, Past, Now, Confirmed(info[q]),
          Sent(e, link[q] = "up", <<Frame("COMPLETE_ACK", Tid)>>, q \in fails),
          link[q], cur[q], phase[q], drain[q], task'[q])
  BY <1>7, <1>10, <1>11, SentOn
<1>13. /\ info'[q] = Confirmed(info[q]) /\ \A r \in Receivers \ {q} : info'[r] = info[r]
  BY <1>1
<1>14. ASSUME NEW r \in Receivers \ {q} PROVE conn'[r] = conn[r]
  <2>1. conn'[r] = Sent(conn[r], link[r] = "up", <<>>, r \in fails)
    BY <1>3, <1>4, <1>5
  <2>2. r \in Receivers /\ conn[r] \in Conns
    BY <1>1
  <2>3. conn[r].toRcv \in Seq(RcvFrames)
    BY <2>2 DEF Conns
  <2>4. conn[r].toRcv \o <<>> = conn[r].toRcv
    BY <2>3
  <2>5. link[r] = "up" => [conn[r] EXCEPT !.toRcv = @ \o <<>>] = conn[r]
    BY <2>2, <2>4 DEF Conns
  <2>6. r \notin fails
    BY <1>4, <1>5
  <2> QED
    BY <2>1, <2>5, <2>6 DEF Sent
<1>15. conn'[q] = Sent(e, link[q] = "up", <<Frame("COMPLETE_ACK", Tid)>>, q \in fails)
  BY <1>3, <1>4, <1>5
<1>16. On(pc, Tid, Seen, Past, Now, info'[q], conn'[q], link[q], cur[q], phase[q], drain[q], task'[q])
  BY <1>12, <1>13, <1>15
<1> QED
  BY <1>2, <1>13, <1>14, <1>16, OneOn

------------------------------------------------------------------------------
(* Registrations, and what is read, keep it *)

\* Registrations are accepted.
LEMMA AcceptForms ==
    ASSUME Inv, NEW from \in SUBSET Pending, NEW r \in Receivers, task[r] # "todo"
    PROVE  /\ InfoAfter(from)[r] \in Infos /\ ConnAfter(from)[r] \in Conns
           /\ SteadyAt(r) => Steady(InfoAfter(from)[r], ConnAfter(from)[r], LinkAfter(from)[r],
                                    cur[r], phase[r], drain[r])
           /\ OffAt(r) => Off(Tid, Seen, InfoAfter(from)[r], ConnAfter(from)[r], LinkAfter(from)[r],
                              cur[r], phase[r], drain[r])
           /\ OnAt(r) => On(pc, Tid, Seen, Past, Now, InfoAfter(from)[r], ConnAfter(from)[r],
                            LinkAfter(from)[r], cur[r], phase[r], drain[r], task[r])
<1>1. /\ info[r] \in Infos /\ conn[r] \in Conns /\ cur[r] \in Ids
      /\ Registration(r) = RegOf(cur[r], phase[r])
  BY Types
<1>2. Tid \in Ids /\ NoId \in Seen /\ Now \in Nat \X Nat
  BY IdTypes
<1>3. from \in SUBSET Receivers
  BY DEF Pending
<1>4. InfoAfter(from)[r] \in Infos /\ ConnAfter(from)[r] \in Conns
  BY <1>3, AfterGood DEF Inv, InfosGood, ConnsGood
<1>5. CASE r \in from
  <2>1. link[r] = "pending"
    BY <1>5 DEF Pending
  <2>2. /\ InfoAfter(from)[r] = Installed(info[r], RegOf(cur[r], phase[r]))
        /\ ConnAfter(from)[r] = Fresh(InstallFrames(info[r], RegOf(cur[r], phase[r])))
        /\ LinkAfter(from)[r] = "up"
    BY <1>1, <1>5 DEF InfoAfter, ConnAfter, LinkAfter
  <2>3. /\ SteadyAt(r) => Steady(info[r], conn[r], "pending", cur[r], phase[r], drain[r])
        /\ OffAt(r) => Off(Tid, Seen, info[r], conn[r], "pending", cur[r], phase[r], drain[r])
        /\ OnAt(r) => On(pc, Tid, Seen, Past, Now,
                         info[r], conn[r], "pending", cur[r], phase[r], drain[r], task[r])
    BY <2>1 DEF SteadyAt, OffAt, OnAt
  <2> DEFINE j == Installed(info[r], RegOf(cur[r], phase[r]))
             e == Fresh(InstallFrames(info[r], RegOf(cur[r], phase[r])))
  <2>4. /\ SteadyAt(r) => Steady(j, e, "up", cur[r], phase[r], drain[r])
        /\ OffAt(r) => Off(Tid, Seen, j, e, "up", cur[r], phase[r], drain[r])
        /\ OnAt(r) => On(pc, Tid, Seen, Past, Now, j, e, "up", cur[r], phase[r], drain[r], task[r])
    <3>1. /\ Steady(info[r], conn[r], "pending", cur[r], phase[r], drain[r])
             => Steady(j, e, "up", cur[r], phase[r], drain[r])
          /\ Off(Tid, Seen, info[r], conn[r], "pending", cur[r], phase[r], drain[r])
             => Off(Tid, Seen, j, e, "up", cur[r], phase[r], drain[r])
          /\ On(pc, Tid, Seen, Past, Now,
                info[r], conn[r], "pending", cur[r], phase[r], drain[r], task[r])
             => On(pc, Tid, Seen, Past, Now, j, e, "up", cur[r], phase[r], drain[r], task[r])
      BY <1>1, <1>2, InstallForms
    <3> HIDE DEF j, e
    <3> QED
      BY <2>3, <3>1
  <2>5. InfoAfter(from)[r] = j /\ ConnAfter(from)[r] = e /\ LinkAfter(from)[r] = "up"
    BY <2>2
  <2> HIDE DEF j, e
  <2> QED
    BY <1>4, <2>4, <2>5
<1>6. CASE r \notin from
  <2>1. InfoAfter(from)[r] = info[r] /\ ConnAfter(from)[r] = conn[r] /\ LinkAfter(from)[r] = link[r]
    BY <1>6 DEF InfoAfter, ConnAfter, LinkAfter
  <2> QED
    BY <1>4, <2>1 DEF SteadyAt, OffAt, OnAt
<1> QED
  BY <1>5, <1>6

LEMMA SendEach ==
    ASSUME NEW cs, NEW links, NEW frames, SendOn(cs, links, frames)
    PROVE  \E fails \in SUBSET Receivers :
              \A r \in Receivers : conn'[r] = Sent(cs[r], links[r] = "up", frames[r], r \in fails)
  BY DEF SendOn

LEMMA RegisterFits ==
    ASSUME Inv, Control, AllFit, NEW q \in Receivers, Register(q) PROVE AllFit'
<1>1. pc = "register" /\ Begins /\ {q} \in SUBSET Pending
  BY DEF Register, Begins
<1>2. UNCHANGED <<file, attempt, cur, phase, drain>> /\ ~Active'
  BY DEF Register, attemptVars, Active
<1>3. Tid' = Tid /\ Seen' = Seen
  BY <1>2, SameAttempt
<1>4. ASSUME NEW r \in Receivers
      PROVE  Off(Tid', Seen', info'[r], conn'[r], link'[r], cur'[r], phase'[r], drain'[r])
  <2>1. OffAt(r)
    BY <1>1, AtForms
  <2>2. task[r] # "todo"
    BY <1>1 DEF Control
  <2>3. Off(Tid, Seen, InfoAfter({q})[r], ConnAfter({q})[r], LinkAfter({q})[r],
            cur[r], phase[r], drain[r])
    BY <1>1, <2>1, <2>2, AcceptForms
  <2> QED
    BY <1>2, <1>3, <2>3 DEF Register
<1> QED
  BY <1>2, <1>4, OffNext

LEMMA PollFits == ASSUME Inv, Control, AllFit, Poll PROVE AllFit'
<1>1. /\ pc \in {"meta", "collect", "barrier"} /\ Active
      /\ UNCHANGED <<pc, file, attempt, section, round, centrals, task, cur, phase, drain>>
  BY DEF Poll, Waiting, Active, attemptVars
<1>2. /\ Tid' = Tid /\ Seen' = Seen /\ Past' = Past /\ Now' = Now /\ Active'
  BY <1>1, SameStage
<1>3. \/ UNCHANGED <<info, conn, link>>
      \/ \E q \in Pending : /\ info' = InfoAfter({q}) /\ conn' = ConnAfter({q})
                            /\ link' = LinkAfter({q})
  BY DEF Poll
<1>4. ASSUME NEW r \in Receivers
      PROVE  On(pc', Tid', Seen', Past', Now',
                info'[r], conn'[r], link'[r], cur'[r], phase'[r], drain'[r], task'[r])
  <2>1. OnAt(r) /\ task[r] # "todo"
    BY <1>1, AllOn DEF Control
  <2>2. CASE UNCHANGED <<info, conn, link>>
    BY <1>1, <1>2, <2>1, <2>2 DEF OnAt
  <2>3. ASSUME NEW q \in Pending, info' = InfoAfter({q}), conn' = ConnAfter({q}),
               link' = LinkAfter({q})
        PROVE  On(pc', Tid', Seen', Past', Now',
                  info'[r], conn'[r], link'[r], cur'[r], phase'[r], drain'[r], task'[r])
    <3>1. On(pc, Tid, Seen, Past, Now, InfoAfter({q})[r], ConnAfter({q})[r],
             LinkAfter({q})[r], cur[r], phase[r], drain[r], task[r])
      BY <2>1, AcceptForms
    <3> QED
      BY <1>1, <1>2, <2>3, <3>1
  <2> QED
    BY <1>3, <2>2, <2>3
<1> QED
  BY <1>2, <1>4, OnNext

LEMMA FrontFacts ==
    ASSUME Inv, HasFrame
    PROVE  /\ Front \in Receivers /\ conn[Front].toProxy # <<>> /\ conn[Front] \in Conns
           /\ info[Front] \in Infos /\ batch # <<>>
  BY FrontGood DEF HasFrame, Inv, TypeOK

LEMMA ReadNothingFits == ASSUME Inv, Control, AllFit, ReadNothing PROVE AllFit'
<1>1. /\ Front \in Receivers /\ pc \in {"meta", "collect", "barrier"} /\ Active
  BY FrontGood DEF ReadNothing, Control, Active
<1>2. UNCHANGED <<pc, file, attempt, section, round, centrals, task, info, link, cur, phase, drain>>
  BY DEF ReadNothing, attemptVars, rcvVars
<1>3. conn \in [Receivers -> Conns] /\ conn[Front] \in Conns
  BY <1>1 DEF Inv, TypeOK
<1>4. conn' = conn \/ conn' = [conn EXCEPT ![Front] = Closed(@)]
  BY DEF ReadNothing
<1>5. /\ conn'[Front] = conn[Front] \/ conn'[Front] = Closed(conn[Front])
      /\ \A r \in Receivers \ {Front} : conn'[r] = conn[r]
  BY <1>1, <1>3, <1>4
<1>6. OnAt(Front)
  BY <1>1, AllOn
<1>7. On(pc, Tid, Seen, Past, Now, info'[Front], conn'[Front], link[Front], cur[Front],
         phase[Front], drain[Front], task'[Front])
  BY <1>2, <1>3, <1>5, <1>6, ClosedOn DEF OnAt
<1> HIDE DEF Front
<1> QED
  BY <1>1, <1>2, <1>5, <1>7, OneOn

LEMMA ReadMetaReadyFits == ASSUME Inv, Control, AllFit, ReadMetaReady PROVE AllFit'
<1>1. /\ pc = "meta" /\ Active /\ HasFrame
      /\ UNCHANGED <<mode, file, attempt, section, round, centrals, task, link, cur, phase, drain>>
  BY DEF ReadMetaReady, attemptVars, rcvVars, Active
<1>2. /\ Front \in Receivers /\ conn[Front].toProxy # <<>> /\ conn[Front] \in Conns
      /\ info[Front] \in Infos /\ info \in [Receivers -> Infos] /\ conn \in [Receivers -> Conns]
  BY <1>1, FrontFacts DEF Inv, TypeOK
<1>3. OnAt(Front) /\ Tid \in Seen
  BY <1>1, <1>2, AllOn, IdTypes
<1>4. task[Front] # "todo"
  BY <1>1, <1>2 DEF Control
<1>5. \/ /\ conn' = Popped /\ UNCHANGED <<pc, info>>
      \/ /\ conn' = Popped /\ UNCHANGED pc
         /\ info' = [info EXCEPT ![Front].metaReady = TRUE,
                                 ![Front].state = "Receiving", ![Front].id = Tid]
      \/ /\ conn' = Popped /\ Throws /\ UNCHANGED info
      \/ /\ Got.type = "RECEIVER_COMPLETE" /\ Got.id = Tid /\ UNCHANGED pc
         /\ info' = [info EXCEPT ![Front] = Confirmed(@)]
         /\ SendOn(Popped, link, Ack(Front))
  BY DEF ReadMetaReady
<1>6. CASE conn' = Popped /\ UNCHANGED <<pc, info>>
  <2>1. On(pc, Tid, Seen, Past, Now, info'[Front], conn[Front], link[Front], cur[Front],
           phase[Front], drain[Front], task'[Front])
    BY <1>1, <1>3, <1>6 DEF OnAt
  <2> QED
    BY <1>1, <1>2, <1>6, <2>1, PopOn DEF Popped
<1>7. CASE /\ conn' = Popped /\ UNCHANGED pc
           /\ info' = [info EXCEPT ![Front].metaReady = TRUE,
                                   ![Front].state = "Receiving", ![Front].id = Tid]
  <2>1. /\ info'[Front] = [info[Front] EXCEPT !.metaReady = TRUE, !.state = "Receiving", !.id = Tid]
        /\ \A r \in Receivers \ {Front} : info'[r] = info[r]
    BY <1>2, <1>7
  <2>2. On("meta", Tid, Seen, Past, Now, info[Front], conn[Front], link[Front], cur[Front],
           phase[Front], drain[Front], task[Front])
    BY <1>1, <1>3 DEF OnAt
  <2>3. On("meta", Tid, Seen, Past, Now,
           [info[Front] EXCEPT !.metaReady = TRUE, !.state = "Receiving", !.id = Tid],
           conn[Front], link[Front], cur[Front], phase[Front], drain[Front], task[Front])
    BY <1>2, <1>3, <2>2, MetaReadyFits
  <2>4. On(pc, Tid, Seen, Past, Now, info'[Front], conn[Front], link[Front], cur[Front],
           phase[Front], drain[Front], task'[Front])
    BY <1>1, <2>1, <2>3
  <2> QED
    BY <1>1, <1>2, <1>7, <2>1, <2>4, PopOn DEF Popped
<1>8. CASE conn' = Popped /\ Throws /\ UNCHANGED info
  <2>1. ~Begins' /\ ~Active'
    BY <1>1, <1>8, ControlFacts DEF Throws, Control, Begins, Active
  <2>2. ASSUME NEW r \in Receivers
        PROVE  Steady(info'[r], conn'[r], link'[r], cur'[r], phase'[r], drain'[r])
    <3>1. SteadyAt(r) /\ conn[r] \in Conns
      BY <1>2, AllSteady
    <3>2. CASE r = Front
      <4>1. conn'[r] = [conn[r] EXCEPT !.toProxy = Tail(@)]
        BY <1>2, <1>8, <3>2 DEF Popped
      <4>2. Steady(info[r], [conn[r] EXCEPT !.toProxy = Tail(@)], link[r], cur[r], phase[r], drain[r])
        BY <1>2, <3>1, <3>2, PoppedOn DEF SteadyAt
      <4> QED
        BY <1>1, <1>8, <4>1, <4>2
    <3>3. CASE r # Front
      BY <1>1, <1>2, <1>8, <3>1, <3>3 DEF Popped, SteadyAt
    <3> QED
      BY <3>2, <3>3
  <2> QED
    BY <2>1, <2>2, SteadyNext
<1>9. CASE /\ Got.type = "RECEIVER_COMPLETE" /\ Got.id = Tid /\ UNCHANGED pc
           /\ info' = [info EXCEPT ![Front] = Confirmed(@)]
           /\ SendOn(Popped, link, Ack(Front))
  BY <1>1, <1>2, <1>4, <1>9, ConfirmStep DEF Got, Popped
<1> QED
  BY <1>5, <1>6, <1>7, <1>8, <1>9

LEMMA ReadReportFits == ASSUME Inv, Control, AllFit, ReadReport PROVE AllFit'
<1>1. /\ pc = "collect" /\ Active /\ HasFrame
      /\ UNCHANGED <<pc, file, attempt, section, round, centrals, task, link, cur, phase, drain>>
  BY DEF ReadReport, attemptVars, rcvVars, Active
<1>2. /\ Front \in Receivers /\ conn[Front].toProxy # <<>> /\ conn[Front] \in Conns
      /\ info[Front] \in Infos /\ info \in [Receivers -> Infos] /\ conn \in [Receivers -> Conns]
  BY <1>1, FrontFacts DEF Inv, TypeOK
<1>3. OnAt(Front) /\ Tid \in Seen
  BY <1>1, <1>2, AllOn, IdTypes
<1>4. task[Front] # "todo"
  BY <1>1, <1>2 DEF Control
<1>5. \/ /\ conn' = Popped /\ UNCHANGED info
      \/ /\ Got.type = "SECTION_STATUS" /\ Got.id = Tid /\ Got.section = section /\ Got.round = round
         /\ conn' = Popped /\ info' = [info EXCEPT ![Front].status = Got.code]
      \/ /\ Got.type = "RECEIVER_COMPLETE" /\ Got.id = Tid
         /\ info' = [info EXCEPT ![Front] = Confirmed(@)]
         /\ SendOn(Popped, link, Ack(Front))
  BY DEF ReadReport
<1>6. CASE conn' = Popped /\ UNCHANGED info
  <2>1. On(pc, Tid, Seen, Past, Now, info'[Front], conn[Front], link[Front], cur[Front],
           phase[Front], drain[Front], task'[Front])
    BY <1>1, <1>3, <1>6 DEF OnAt
  <2> QED
    BY <1>1, <1>2, <1>6, <2>1, PopOn DEF Popped
<1>7. CASE /\ Got.type = "SECTION_STATUS" /\ Got.id = Tid /\ Got.section = section /\ Got.round = round
           /\ conn' = Popped /\ info' = [info EXCEPT ![Front].status = Got.code]
  <2>1. /\ info'[Front] = [info[Front] EXCEPT !.status = Got.code]
        /\ \A r \in Receivers \ {Front} : info'[r] = info[r]
    BY <1>2, <1>7
  <2>2. On(pc, Tid, Seen, Past, Now, info[Front], conn[Front], link[Front], cur[Front],
           phase[Front], drain[Front], task[Front])
    BY <1>3 DEF OnAt
  <2>3. Current(Tid, info[Front], conn[Front], cur[Front], drain[Front], Now)
    BY <1>1, <2>2, FitsSays
  <2>4. Got \in Messages(conn[Front].toProxy)
    BY <1>2, PoppedOn DEF Got
  <2>5. Now[1] = section /\ Now[2] = round
    BY DEF Now
  <2>6. Bare(cur[Front], drain[Front], conn[Front].toRcv, Tid)
    BY <1>7, <2>3, <2>4, <2>5 DEF Current
  <2>7. On(pc, Tid, Seen, Past, Now, [info[Front] EXCEPT !.status = Got.code],
           conn[Front], link[Front], cur[Front], phase[Front], drain[Front], task[Front])
    BY <1>2, <2>2, <2>6, StatusFits
  <2>8. On(pc, Tid, Seen, Past, Now, info'[Front], conn[Front], link[Front], cur[Front],
           phase[Front], drain[Front], task'[Front])
    BY <1>1, <2>1, <2>7
  <2> QED
    BY <1>1, <1>2, <1>7, <2>1, <2>8, PopOn DEF Popped
<1>8. CASE /\ Got.type = "RECEIVER_COMPLETE" /\ Got.id = Tid
           /\ info' = [info EXCEPT ![Front] = Confirmed(@)]
           /\ SendOn(Popped, link, Ack(Front))
  BY <1>1, <1>2, <1>4, <1>8, ConfirmStep DEF Got, Popped
<1> QED
  BY <1>5, <1>6, <1>7, <1>8

LEMMA ReadReadyFits == ASSUME Inv, Control, AllFit, ReadReady PROVE AllFit'
<1>1. /\ pc = "barrier" /\ Active /\ HasFrame /\ conn' = Popped
      /\ UNCHANGED <<pc, file, attempt, section, round, centrals, task, link, cur, phase, drain>>
  BY DEF ReadReady, attemptVars, rcvVars, Active
<1>2. /\ Front \in Receivers /\ conn[Front].toProxy # <<>> /\ conn[Front] \in Conns
      /\ info[Front] \in Infos /\ info \in [Receivers -> Infos] /\ conn \in [Receivers -> Conns]
  BY <1>1, FrontFacts DEF Inv, TypeOK
<1>3. OnAt(Front) /\ NoId \in Seen
  BY <1>1, <1>2, AllOn, IdTypes
<1>4. CASE Got # Frame("RECEIVER_READY", Tid)
  <2>1. info' = info
    BY <1>4 DEF ReadReady
  <2>2. On(pc, Tid, Seen, Past, Now, info'[Front], conn[Front], link[Front], cur[Front],
           phase[Front], drain[Front], task'[Front])
    BY <1>1, <1>3, <2>1 DEF OnAt
  <2> QED
    BY <1>1, <1>2, <2>1, <2>2, PopOn DEF Popped
<1>5. CASE Got = Frame("RECEIVER_READY", Tid)
  <2>1. info' = [info EXCEPT ![Front].ready = TRUE, ![Front].state = "Idle",
                             ![Front].id = NoId, ![Front].meta = NoId]
    BY <1>5 DEF ReadReady
  <2>2. /\ info'[Front] = [info[Front] EXCEPT !.ready = TRUE, !.state = "Idle", !.id = NoId, !.meta = NoId]
        /\ \A r \in Receivers \ {Front} : info'[r] = info[r]
    BY <1>2, <2>1
  <2>3. On("barrier", Tid, Seen, Past, Now, info[Front], conn[Front], link[Front], cur[Front],
           phase[Front], drain[Front], task[Front])
    BY <1>1, <1>3 DEF OnAt
  <2>4. Got \in Messages(conn[Front].toProxy) /\ Got.type = "RECEIVER_READY" /\ Got.id = Tid
    <3>1. Got \in Messages(conn[Front].toProxy)
      BY <1>2, PoppedOn DEF Got
    <3> QED
      BY <1>5, <3>1, FrameFacts
  <2>5. On("barrier", Tid, Seen, Past, Now,
           [info[Front] EXCEPT !.ready = TRUE, !.state = "Idle", !.id = NoId, !.meta = NoId],
           conn[Front], link[Front], cur[Front], phase[Front], drain[Front], task[Front])
    BY <1>2, <1>3, <2>3, <2>4, ReadyFits
  <2>6. On(pc, Tid, Seen, Past, Now, info'[Front], conn[Front], link[Front], cur[Front],
           phase[Front], drain[Front], task'[Front])
    BY <1>1, <2>2, <2>5
  <2> QED
    BY <1>1, <1>2, <2>2, <2>6, PopOn DEF Popped
<1> QED
  BY <1>4, <1>5

LEMMA WaitThrowsFits == ASSUME Inv, Control, AllFit, WaitThrows PROVE AllFit'
<1>1. ~Begins' /\ ~Active'
  BY ControlFacts DEF WaitThrows, Throws, Control, Begins, Active
<1>2. UNCHANGED <<info, conn, link, cur, phase, drain>>
  BY DEF WaitThrows, rcvVars
<1>3. ASSUME NEW r \in Receivers
      PROVE  Steady(info'[r], conn'[r], link'[r], cur'[r], phase'[r], drain'[r])
  BY <1>2, AllSteady DEF SteadyAt
<1> QED
  BY <1>1, <1>3, SteadyNext

------------------------------------------------------------------------------
(* The begin, the sections and the barrier keep it *)

LEMMA BeginStepFits == ASSUME Inv, Control, AllFit, Begin PROVE AllFit'
<1>1. /\ pc = "begin" /\ Begins /\ Active' /\ pc' = "meta" /\ section' = 0 /\ round' = 0
      /\ UNCHANGED <<file, attempt, task, cur, phase, drain>>
      /\ link' = LinkAfter(Pending)
      /\ info' = [r \in Receivers |-> Begun(InfoAfter(Pending)[r])]
      /\ SendOn(ConnAfter(Pending), link', [r \in Receivers |-> BeginFrames(InfoAfter(Pending)[r])])
  BY DEF Begin, Begins, Active
<1>2. Tid' = Tid /\ Seen' = Seen
  BY <1>1, SameAttempt
<1>3. PICK fails \in SUBSET Receivers :
        \A r \in Receivers :
           conn'[r] = Sent(ConnAfter(Pending)[r], link'[r] = "up",
                           BeginFrames(InfoAfter(Pending)[r]), r \in fails)
  BY <1>1, SendEach
<1>4. Now' \in Nat \X Nat
  BY <1>1 DEF Now
<1>5. Tid \in Seen /\ NoId \in Seen /\ TypeOK
  BY IdTypes DEF Inv
<1>6. ASSUME NEW r \in Receivers
      PROVE  On(pc', Tid', Seen', Past', Now',
                info'[r], conn'[r], link'[r], cur'[r], phase'[r], drain'[r], task'[r])
  <2> DEFINE i == InfoAfter(Pending)[r]
             c == ConnAfter(Pending)[r]
             l == LinkAfter(Pending)[r]
  <2>1. OffAt(r) /\ task[r] # "todo" /\ cur[r] \in Ids
    BY <1>1, AtForms, Types DEF Control
  <2>2. /\ i \in Infos /\ c \in Conns
        /\ Off(Tid, Seen, i, c, l, cur[r], phase[r], drain[r])
    BY <2>1, AcceptForms
  <2>3. info'[r] = Begun(i) /\ conn'[r] = Sent(c, l = "up", BeginFrames(i), r \in fails) /\ link'[r] = l
    BY <1>1, <1>3
  <2> HIDE DEF i, c, l
  <2>4. On("meta", Tid, Seen, Past', Now', Begun(i), Sent(c, l = "up", BeginFrames(i), r \in fails),
           l, cur[r], phase[r], drain[r], task[r])
    BY <1>4, <1>5, <2>1, <2>2, BeginOff
  <2> QED
    BY <1>1, <1>2, <2>3, <2>4
<1> QED
  BY <1>1, <1>6, OnNext

LEMMA AllReadyFits == ASSUME Inv, Control, AllFit, AllReady PROVE AllFit'
<1>1. /\ pc = "meta" /\ pc' = "section" /\ Active /\ Active'
      /\ UNCHANGED <<file, attempt, section, round, info, conn, task, link, cur, phase, drain>>
  BY DEF AllReady, attemptVars, rcvVars, Active
<1>2. Tid' = Tid /\ Seen' = Seen /\ Past \subseteq Past'
  BY <1>1, SameAttempt DEF Past
<1>3. ASSUME NEW r \in Receivers
      PROVE  On(pc', Tid', Seen', Past', Now',
                info'[r], conn'[r], link'[r], cur'[r], phase'[r], drain'[r], task'[r])
  <2>1. OnAt(r) /\ task[r] # "todo"
    BY <1>1, AllOn DEF Control
  <2>2. On("section", Tid, Seen, Past', Now', info[r], conn[r], link[r], cur[r], phase[r], drain[r],
           task[r])
    BY <1>1, <1>2, <2>1, StepFits DEF OnAt
  <2> QED
    BY <1>1, <1>2, <2>2
<1> QED
  BY <1>1, <1>3, OnNext

\* A round of reports starts.
LEMMA RoundStarts ==
    ASSUME NEW p \in {"section", "collect"}, NEW T \in Ids, NEW S, T \in S, NEW N, NEW n,
           NEW i \in Infos, NEW c \in Conns, NEW l, NEW u, NEW h, NEW d, NEW t,
           On(p, T, S, N, n, i, c, l, u, h, d, t),
           NEW s \in Nat, NEW k \in Rounds, NEW N2, N \subseteq N2, <<s, k>> \in N2, <<s, k>> \notin N,
           NEW frames, NEW fails,
           frames = <<>> \/ (frames = <<SectionEnd(T, s, k)>> /\ ~i.isolated)
    PROVE  On("collect", T, S, N2, <<s, k>>, Anew(i),
              Sent(c, l = "up", frames, fails), l, u, h, d, t)
<1> DEFINE j == Anew(i)
           n2 == <<s, k>>
<1>1. <<s, k>> \in Nat \X Nat
  BY SessionAssumption DEF Rounds
<1>2. On("collect", T, S, N2, <<s, k>>, j, c, l, u, h, d, t) /\ Numbers(T, c, u, d, N)
  BY <1>1, NewRoundFits
<1>3. j.status = "NO_REPORT" /\ j.isolated = i.isolated
  BY DEF Anew, Infos
<1>4. SectionEnd(T, n2[1], n2[2]) = SectionEnd(T, s, k)
  OBVIOUS
<1>5. SectionEnd(T, s, k) \in RcvFrames
  BY DEF SectionEnd, RcvFrames
<1> HIDE DEF j
<1>6. /\ n2 \in Nat \X Nat /\ n2 \in N2 /\ n2 \notin N
      /\ On("collect", T, S, N2, n2, j, c, l, u, h, d, t)
  BY <1>1, <1>2
<1> HIDE DEF n2
<1>7. \/ frames = <<>>
      \/ /\ frames = <<SectionEnd(T, n2[1], n2[2])>> /\ ~j.isolated
         /\ SectionEnd(T, n2[1], n2[2]) \in RcvFrames
  BY <1>3, <1>4, <1>5
<1>8. On("collect", T, S, N2, n2, j, Sent(c, l = "up", frames, fails), l, u, h, d, t)
  BY <1>2, <1>3, <1>6, <1>7, SectionEndOn
<1> QED
  BY <1>8 DEF j, n2

LEMMA SendSectionFits == ASSUME Inv, Control, AllFit, SendSection PROVE AllFit'
<1>1. /\ pc = "section" /\ pc' = "collect" /\ round' = 0 /\ Active /\ Active'
      /\ UNCHANGED <<file, attempt, section, task, link, cur, phase, drain>>
      /\ info' = RoundReset(info)
      /\ SendOn(conn, link, EndRound([r \in Receivers |-> InGroup(r)], 0))
  BY DEF SendSection, rcvVars, Active, Send
<1>2. Tid' = Tid /\ Seen' = Seen
  BY <1>1, SameAttempt
<1>3. /\ section \in Nat /\ 0 \in Rounds /\ 0 \in Nat /\ Now' = <<section, 0>>
      /\ Tid \in Ids /\ Tid \in Seen
  <2>1. section \in Nat /\ MaxRepairRounds \in Nat
    BY SessionAssumption DEF Inv, TypeOK
  <2>2. Tid \in Ids /\ Tid \in Seen
    BY IdTypes
  <2>3. Now' = <<section, 0>>
    BY <1>1 DEF Now
  <2> QED
    BY <2>1, <2>2, <2>3 DEF Rounds
<1>4. Past \subseteq Past' /\ <<section, 0>> \in Past' /\ <<section, 0>> \notin Past
  BY <1>1, <1>3 DEF Past
<1>5. PICK fails \in SUBSET Receivers :
        \A r \in Receivers :
           conn'[r] = Sent(conn[r], link[r] = "up", EndRound([q \in Receivers |-> InGroup(q)], 0)[r],
                           r \in fails)
  BY <1>1, SendEach
<1>6. ASSUME NEW r \in Receivers
      PROVE  On(pc', Tid', Seen', Past', Now',
                info'[r], conn'[r], link'[r], cur'[r], phase'[r], drain'[r], task'[r])
  <2> DEFINE frames == EndRound([q \in Receivers |-> InGroup(q)], 0)[r]
  <2>1. OnAt(r) /\ info[r] \in Infos /\ conn[r] \in Conns
    BY <1>1, AllOn, Types
  <2>2. frames = <<>> \/ (frames = <<SectionEnd(Tid, section, 0)>> /\ ~info[r].isolated)
    BY DEF EndRound, InGroup
  <2>3. info'[r] = Anew(info[r])
    BY <1>1 DEF RoundReset, Anew
  <2>4. conn'[r] = Sent(conn[r], link[r] = "up", frames, r \in fails)
    BY <1>5
  <2> HIDE DEF frames
  <2>5. On("section", Tid, Seen, Past, Now, info[r], conn[r], link[r], cur[r], phase[r], drain[r], task[r])
    BY <1>1, <2>1 DEF OnAt
  <2>6. On("collect", Tid, Seen, Past', <<section, 0>>, Anew(info[r]),
           Sent(conn[r], link[r] = "up", frames, r \in fails), link[r], cur[r], phase[r], drain[r], task[r])
    BY <1>3, <1>4, <2>1, <2>2, <2>5, RoundStarts
  <2> QED
    BY <1>1, <1>2, <1>3, <2>3, <2>4, <2>6
<1> QED
  BY <1>1, <1>6, OnNext

\* The records after slow receivers were isolated.
LEMMA IsolatedOn ==
    ASSUME Inv, AllFit, pc = "collect", NEW r \in Receivers
    PROVE  /\ Isolated[r] \in Infos
           /\ On("collect", Tid, Seen, Past, Now, Isolated[r], conn[r], link[r], cur[r], phase[r],
                 drain[r], task[r])
           /\ InGroup(r) /\ ~Slow(r) => ~Isolated[r].isolated
<1>1. OnAt(r) /\ info[r] \in Infos
  BY AllOn, Types DEF Active
<1>2. Isolated[r] = [info[r] EXCEPT !.isolated = @ \/ Slow(r)] /\ Slow(r) \in BOOLEAN
  BY DEF Isolated, Slow
<1>3. Isolated[r] \in Infos
  BY <1>1, <1>2 DEF Infos
<1>4. On("collect", Tid, Seen, Past, Now, info[r], conn[r], link[r], cur[r], phase[r],
         drain[r], task[r])
  BY <1>1 DEF OnAt
<1>5. Slow(r) => info[r].status = "Missing"
  BY DEF Slow
<1>6. On("collect", Tid, Seen, Past, Now, [info[r] EXCEPT !.isolated = @ \/ Slow(r)],
         conn[r], link[r], cur[r], phase[r], drain[r], task[r])
  BY <1>1, <1>4, <1>5, IsolatedFits
<1>7. InGroup(r) /\ ~Slow(r) => ~Isolated[r].isolated
  BY <1>1, <1>2 DEF Infos, InGroup
<1> QED
  BY <1>2, <1>3, <1>6, <1>7

LEMMA RepairRoundFits == ASSUME Inv, Control, AllFit, RepairRound PROVE AllFit'
<1>1. /\ pc = "collect" /\ pc' = "collect" /\ round' = round + 1 /\ Active'
      /\ UNCHANGED <<file, attempt, section, task, link, cur, phase, drain>>
      /\ info' = RoundReset(Isolated) /\ round < MaxRepairRounds
      /\ SendOn(conn, link, EndRound([r \in Receivers |-> InGroup(r) /\ ~Slow(r)], round + 1))
  BY DEF RepairRound, CollectionEnds, rcvVars, Active, Send, RoundsLeft
<1>2. Tid' = Tid /\ Seen' = Seen
  BY <1>1, SameAttempt
<1>3. /\ section \in Nat /\ round \in Nat /\ round + 1 \in Rounds /\ round + 1 \in Nat
      /\ Now' = <<section, round + 1>> /\ Tid \in Ids /\ Tid \in Seen
  <2>1. section \in Nat /\ round \in Rounds /\ MaxRepairRounds \in Nat
    BY SessionAssumption DEF Inv, TypeOK
  <2>2. Tid \in Ids /\ Tid \in Seen
    BY IdTypes
  <2>3. round \in Nat /\ round + 1 \in Rounds /\ round + 1 \in Nat
    BY <1>1, <2>1 DEF Rounds
  <2> QED
    BY <1>1, <2>1, <2>2, <2>3 DEF Now
<1>4. Past \subseteq Past' /\ <<section, round + 1>> \in Past' /\ <<section, round + 1>> \notin Past
  <2>1. \A n \in Nat \X Rounds : n[1] \in Nat /\ n[2] \in Nat
    BY SessionAssumption DEF Rounds
  <2>2. \A k \in Nat : (k <= round => k <= round + 1) /\ ~(round + 1 <= round)
    BY <1>3
  <2>3. /\ Past = {n \in Nat \X Rounds : n[1] < section \/ (n[1] = section /\ n[2] <= round)}
        /\ Past' = {n \in Nat \X Rounds : n[1] < section \/ (n[1] = section /\ n[2] <= round + 1)}
    BY <1>1 DEF Past
  <2>4. <<section, round + 1>> \in Nat \X Rounds /\ ~(section < section) /\ round + 1 <= round + 1
    BY <1>3
  <2> QED
    BY <1>3, <2>1, <2>2, <2>3, <2>4
<1>5. PICK fails \in SUBSET Receivers :
        \A r \in Receivers :
           conn'[r] = Sent(conn[r], link[r] = "up",
                           EndRound([q \in Receivers |-> InGroup(q) /\ ~Slow(q)], round + 1)[r],
                           r \in fails)
  BY <1>1 DEF SendOn
<1>6. ASSUME NEW r \in Receivers
      PROVE  On(pc', Tid', Seen', Past', Now',
                info'[r], conn'[r], link'[r], cur'[r], phase'[r], drain'[r], task'[r])
  <2> DEFINE frames == EndRound([q \in Receivers |-> InGroup(q) /\ ~Slow(q)], round + 1)[r]
             i == Isolated[r]
  <2>1. /\ i \in Infos /\ conn[r] \in Conns
        /\ On("collect", Tid, Seen, Past, Now, i, conn[r], link[r], cur[r], phase[r], drain[r], task[r])
        /\ InGroup(r) /\ ~Slow(r) => ~i.isolated
    BY <1>1, IsolatedOn, Types
  <2>2. frames = <<>> \/ (frames = <<SectionEnd(Tid, section, round + 1)>> /\ ~i.isolated)
    BY <2>1 DEF EndRound
  <2>3. info'[r] = Anew(i)
    BY <1>1 DEF RoundReset, Anew
  <2>4. conn'[r] = Sent(conn[r], link[r] = "up", frames, r \in fails)
    BY <1>5
  <2> HIDE DEF frames, i
  <2>5. On("collect", Tid, Seen, Past', <<section, round + 1>>, Anew(i),
           Sent(conn[r], link[r] = "up", frames, r \in fails), link[r], cur[r], phase[r], drain[r], task[r])
    BY <1>3, <1>4, <2>1, <2>2, RoundStarts
  <2> QED
    BY <1>1, <1>2, <1>3, <2>3, <2>4, <2>5
<1> QED
  BY <1>1, <1>6, OnNext

Unready(i) == [i EXCEPT !.ready = FALSE]

\* The barrier of an attempt that is over.
EndsIn(i, cs, links, frames, fails) ==
    \A r \in Receivers :
       /\ info'[r] = Unready(i[r]) /\ link'[r] = links[r]
       /\ conn'[r] = Sent(cs[r], links[r] = "up", frames[r], r \in fails)
       /\ i[r] \in Infos /\ cs[r] \in Conns /\ task'[r] # "todo"
       /\ frames[r] = <<>> \/ frames[r] = <<Frame("TRANSFER_FAILED", Tid)>>
       /\ On(pc, Tid, Seen, Past, Now,
             i[r], cs[r], links[r], cur[r], phase[r], drain[r], task[r])

LEMMA BarrierStep ==
    ASSUME Inv, pc # "barrier", pc' = "barrier", UNCHANGED <<file, attempt, cur, phase, drain>>,
           NEW i, NEW cs, NEW links, NEW frames, NEW fails, EndsIn(i, cs, links, frames, fails)
    PROVE  AllFit'
<1>1. Tid' = Tid /\ Seen' = Seen /\ Active'
  BY SameAttempt DEF Active
<1>3. ASSUME NEW r \in Receivers
      PROVE  On(pc', Tid', Seen', Past', Now',
                info'[r], conn'[r], link'[r], cur'[r], phase'[r], drain'[r], task'[r])
  <2>1. On("barrier", Tid, Seen, Past', Now',
           Unready(i[r]), cs[r], links[r], cur[r], phase[r], drain[r], task'[r])
    BY BarrierFits DEF Unready, EndsIn
  <2>2. Plain(Frame("TRANSFER_FAILED", Tid), "barrier", Tid, Seen, cur[r], drain[r], cs[r].toRcv)
    BY AckPlain
  <2>3. cs[r] \in Conns
    BY DEF EndsIn
  <2>4. frames[r] = <<>> \/ \E f : frames[r] = <<f>> /\ Plain(f, "barrier", Tid, Seen, cur[r], drain[r], cs[r].toRcv)
    BY <2>2 DEF EndsIn
  <2>5. On("barrier", Tid, Seen, Past', Now', Unready(i[r]),
           Sent(cs[r], links[r] = "up", frames[r], r \in fails),
           links[r], cur[r], phase[r], drain[r], task'[r])
    BY <2>1, <2>3, <2>4, SentOn
  <2>6. /\ info'[r] = Unready(i[r]) /\ link'[r] = links[r]
        /\ conn'[r] = Sent(cs[r], links[r] = "up", frames[r], r \in fails)
    BY DEF EndsIn
  <2> QED
    BY <1>1, <2>5, <2>6
<1> QED
  BY <1>1, <1>3, OnNext

LEMMA FailedEach ==
    ASSUME NEW i, NEW r \in Receivers
    PROVE  FailedFrames(i)[r] = <<>> \/ FailedFrames(i)[r] = <<Frame("TRANSFER_FAILED", Tid)>>
  BY DEF FailedFrames

\* The barrier of an attempt that failed in the sections.
LEMMA FailedStep ==
    ASSUME Inv, Control, AllFit, pc \in {"section", "collect"}, pc' = "barrier",
           UNCHANGED <<file, attempt, cur, phase, drain, link, task>>,
           NEW i, i = info \/ (pc = "collect" /\ i = Isolated),
           \A r \in Receivers : info'[r] = Unready(i[r]), Send(FailedFrames(i))
    PROVE  AllFit'
<1>1. ASSUME NEW r \in Receivers
      PROVE  /\ i[r] \in Infos /\ conn[r] \in Conns /\ task'[r] # "todo"
             /\ FailedFrames(i)[r] = <<>> \/ FailedFrames(i)[r] = <<Frame("TRANSFER_FAILED", Tid)>>
             /\ On(pc, Tid, Seen, Past, Now,
                   i[r], conn[r], link[r], cur[r], phase[r], drain[r], task[r])
  <2>1. OnAt(r) /\ info[r] \in Infos /\ conn[r] \in Conns
    BY AllOn, Types DEF Active
  <2>2. task'[r] # "todo"
    BY DEF Control
  <2>3. CASE i = info
    BY <2>1, <2>2, <2>3, FailedEach DEF OnAt
  <2>4. CASE pc = "collect" /\ i = Isolated
    BY <2>1, <2>2, <2>4, FailedEach, IsolatedOn
  <2> QED
    BY <2>3, <2>4
<1>2. PICK fails \in SUBSET Receivers :
        \A r \in Receivers : conn'[r] = Sent(conn[r], link[r] = "up", FailedFrames(i)[r], r \in fails)
  BY DEF Send, SendOn
<1>3. pc # "barrier"
  OBVIOUS
<1>4. EndsIn(i, conn, link, FailedFrames(i), fails)
  BY <1>1, <1>2 DEF EndsIn
<1> QED
  BY <1>3, <1>4, BarrierStep

\* The attempt goes on with the next section, or with the backfill.
LEMMA GoesOn ==
    ASSUME Inv, AllFit, pc \in {"section", "collect"}, pc' \in {"section", "backfill"},
           UNCHANGED <<file, attempt, cur, phase, drain, link, conn>>,
           section' = section \/ section' = section + 1,
           pc = "collect" /\ pc' = "section" => section' = section + 1,
           info' = info \/ (pc = "collect" /\ info' = Isolated),
           \A r \in Receivers : task'[r] = "todo" => info'[r].isolated
    PROVE  AllFit'
<1>1. Tid' = Tid /\ Seen' = Seen /\ Active'
  BY SameAttempt DEF Active
<1>2. pc' = "section" => Past \subseteq Past'
  BY DEF Past, Inv, TypeOK
<1>3. ASSUME NEW r \in Receivers
      PROVE  On(pc', Tid', Seen', Past', Now',
                info'[r], conn'[r], link'[r], cur'[r], phase'[r], drain'[r], task'[r])
  <2>1. OnAt(r) /\ info[r] \in Infos /\ conn[r] \in Conns
    BY AllOn, Types DEF Active
  <2>2. On(pc, Tid, Seen, Past, Now, info'[r], conn[r], link[r], cur[r], phase[r], drain[r], task[r])
    BY <2>1, IsolatedOn DEF OnAt
  <2>3. CASE pc' = "section"
    BY <1>1, <1>2, <2>2, <2>3, StepFits
  <2>4. CASE pc' = "backfill"
    <3>1. On("backfill", Tid, Seen, Past \cup Past', Now', info'[r], conn[r], link[r], cur[r],
             phase[r], drain[r], task'[r])
      BY <2>2, StepFits
    <3>2. On("backfill", Tid, Seen, Past', Now', info'[r], conn[r], link[r], cur[r],
             phase[r], drain[r], task'[r])
      BY <3>1 DEF On, Underway
    <3> QED
      BY <1>1, <2>4, <3>2
  <2> QED
    BY <2>3, <2>4
<1> QED
  BY <1>1, <1>3, OnNext

LEMMA TasksIsolated ==
    ASSUME NEW i, NEW r \in Receivers, BackfillTasks(i)[r] = "todo" PROVE i[r].isolated
  BY DEF BackfillTasks

LEMMA SectionsFits ==
    ASSUME Inv, Control, AllFit,
           CollectMismatch \/ CloseSection \/ RoundsExhausted \/ SectionsEnd \/ CentralFails
    PROVE  AllFit'
<1>1. CASE CollectMismatch
  <2>1. pc = "collect" /\ UNCHANGED <<file, attempt, task, cur, phase, drain, link>>
    BY <1>1 DEF CollectMismatch, CollectionEnds, rcvVars
  <2>2. \A r \in Receivers : task[r] # "todo"
    BY <2>1 DEF Control
  <2>3. CASE FromCentral
    <3>1. pc' = "section" /\ section' = section + 1 /\ UNCHANGED <<info, conn>>
      BY <1>1, <2>3 DEF CollectMismatch
    <3> QED
      BY <2>1, <2>2, <3>1, GoesOn
  <2>4. CASE ~FromCentral
    <3>1. /\ pc' = "barrier" /\ Send(FailedFrames(info))
          /\ \A r \in Receivers : info'[r] = Unready(info[r])
      BY <1>1, <2>4 DEF CollectMismatch, EnterBarrier, Unready
    <3> QED
      BY <2>1, <3>1, FailedStep
  <2> QED
    BY <2>3, <2>4
<1>2. CASE CloseSection
  <2>1. /\ pc = "collect" /\ UNCHANGED <<file, attempt, task, cur, phase, drain, link, conn>>
        /\ pc' = "section" /\ section' = section + 1 /\ info' = Isolated
    BY <1>2 DEF CloseSection, CollectionEnds, rcvVars
  <2>2. \A r \in Receivers : task[r] # "todo"
    BY <2>1 DEF Control
  <2> QED
    BY <2>1, <2>2, GoesOn
<1>3. CASE RoundsExhausted
  <2>1. pc = "collect" /\ UNCHANGED <<file, attempt, section, cur, phase, drain, link>>
    BY <1>3 DEF RoundsExhausted, CollectionEnds, rcvVars
  <2>2. CASE FromCentral
    <3>1. /\ pc' = "barrier" /\ Send(FailedFrames(Isolated)) /\ UNCHANGED task
          /\ \A r \in Receivers : info'[r] = Unready(Isolated[r])
      BY <1>3, <2>2 DEF RoundsExhausted, EnterBarrier, Unready
    <3> QED
      BY <2>1, <3>1, FailedStep
  <2>3. CASE ~FromCentral
    <3>1. /\ pc' = "backfill" /\ task' = BackfillTasks(Isolated) /\ info' = Isolated
          /\ UNCHANGED conn
      BY <1>3, <2>3 DEF RoundsExhausted
    <3>2. \A r \in Receivers : task'[r] = "todo" => info'[r].isolated
      BY <3>1, TasksIsolated
    <3> QED
      BY <2>1, <3>1, <3>2, GoesOn
  <2> QED
    BY <2>2, <2>3
<1>4. CASE SectionsEnd
  <2>1. pc = "section" /\ UNCHANGED <<file, attempt, section, cur, phase, drain, link>>
    BY <1>4 DEF SectionsEnd, rcvVars
  <2>2. CASE FromCentral /\ result = "Sha256Mismatch"
    <3>1. /\ pc' = "barrier" /\ Send(FailedFrames(info)) /\ UNCHANGED task
          /\ \A r \in Receivers : info'[r] = Unready(info[r])
      BY <1>4, <2>2 DEF SectionsEnd, EnterBarrier, Unready
    <3> QED
      BY <2>1, <3>1, FailedStep
  <2>3. CASE ~(FromCentral /\ result = "Sha256Mismatch")
    <3>1. /\ pc' = "backfill" /\ task' = BackfillTasks(info) /\ UNCHANGED <<info, conn>>
      BY <1>4, <2>3 DEF SectionsEnd
    <3>2. \A r \in Receivers : task'[r] = "todo" => info'[r].isolated
      BY <3>1, TasksIsolated
    <3> QED
      BY <2>1, <3>1, <3>2, GoesOn
  <2> QED
    BY <2>2, <2>3
<1>5. CASE CentralFails
  <2>1. /\ pc = "section" /\ UNCHANGED <<file, attempt, task, cur, phase, drain, link>>
        /\ pc' = "barrier" /\ Send(FailedFrames(info))
        /\ \A r \in Receivers : info'[r] = Unready(info[r])
    BY <1>5 DEF CentralFails, EnterBarrier, Unready, rcvVars
  <2> QED
    BY <2>1, FailedStep
<1> QED
  BY <1>1, <1>2, <1>3, <1>4, <1>5

------------------------------------------------------------------------------
(* Backfill, and what lies between two attempts, keep it *)

LEMMA TaskOn ==
    ASSUME NEW p, NEW T, NEW S, NEW N, NEW n, NEW i, NEW c, NEW l, NEW u, NEW h, NEW d, NEW t,
           On(p, T, S, N, n, i, c, l, u, h, d, t), NEW t2, t2 # "todo"
    PROVE  On(p, T, S, N, n, i, c, l, u, h, d, t2)
  BY DEF On, Underway, Flags

LEMMA AbandonStep ==
    ASSUME Inv, AllFit, pc = "backfill", NEW q \in Receivers, Abandon(q),
           UNCHANGED <<pc, file, attempt, section, round, centrals, link, cur, phase, drain>>
    PROVE  AllFit'
<1>1. /\ info \in [Receivers -> Infos] /\ conn \in [Receivers -> Conns]
      /\ task \in [Receivers -> {"none", "todo", "waiting", "done"}]
      /\ info[q] \in Infos /\ conn[q] \in Conns
  BY DEF Inv, TypeOK
<1>2. /\ info'[q] = [info[q] EXCEPT !.abandoned = TRUE] /\ conn'[q] = Closed(conn[q])
      /\ task'[q] = "done"
      /\ \A r \in Receivers \ {q} : info'[r] = info[r] /\ conn'[r] = conn[r] /\ task'[r] = task[r]
  BY <1>1 DEF Abandon
<1>3. OnAt(q) /\ Active
  BY AllOn DEF Active
<1>4. /\ On("backfill", Tid, Seen, Past, Now, info[q], Closed(conn[q]), link[q], cur[q], phase[q],
            drain[q], task[q])
      /\ ~Closed(conn[q]).open
  BY <1>1, <1>3, ClosedOn DEF OnAt
<1>5. On("backfill", Tid, Seen, Past, Now, [info[q] EXCEPT !.abandoned = TRUE], Closed(conn[q]),
         link[q], cur[q], phase[q], drain[q], task'[q])
  BY <1>1, <1>2, <1>4, AbandonFits
<1>6. On(pc, Tid, Seen, Past, Now, info'[q], conn'[q], link[q], cur[q], phase[q], drain[q], task'[q])
  BY <1>2, <1>5
<1> QED
  BY <1>2, <1>3, <1>6, OneOn

LEMMA BackfillSendFits ==
    ASSUME Inv, AllFit, NEW q \in Receivers, BackfillSend(q) PROVE AllFit'
<1>1. /\ pc = "backfill" /\ Active /\ task[q] = "todo"
      /\ UNCHANGED <<pc, file, attempt, section, round, centrals, link, cur, phase, drain>>
  BY DEF BackfillSend, attemptVars, rcvVars, Active
<1>2. CASE Abandon(q)
  BY <1>1, <1>2, AbandonStep
<1>3. CASE \E fails :
             /\ conn' = [conn EXCEPT ![q] =
                           Sent(@, link[q] = "up", <<Frame("BACKFILL", Tid)>>, fails)]
             /\ task' = [task EXCEPT ![q] = "waiting"]
             /\ UNCHANGED info
  <2>1. PICK fails : conn' = [conn EXCEPT ![q] =
                       Sent(@, link[q] = "up", <<Frame("BACKFILL", Tid)>>, fails)]
    BY <1>3
  <2>2. /\ conn \in [Receivers -> Conns] /\ conn[q] \in Conns
        /\ task \in [Receivers -> {"none", "todo", "waiting", "done"}]
    BY DEF Inv, TypeOK
  <2>3. /\ conn'[q] = Sent(conn[q], link[q] = "up", <<Frame("BACKFILL", Tid)>>, fails)
        /\ task'[q] = "waiting" /\ info' = info
        /\ \A r \in Receivers \ {q} : conn'[r] = conn[r] /\ task'[r] = task[r]
    BY <1>3, <2>1, <2>2
  <2>4. On(pc, Tid, Seen, Past, Now, info[q], conn[q], link[q], cur[q], phase[q], drain[q], task[q])
    BY <1>1, AllOn DEF OnAt
  <2>5. Flags(pc, Tid, info[q], task[q]) /\ Spared(Tid, info[q], conn[q], cur[q], drain[q])
    BY <2>4, FitsSays
  <2>6. Bare(cur[q], drain[q], conn[q].toRcv, Tid)
    BY <1>1, <2>5 DEF Flags, Spared
  <2>7. Tid \in Ids /\ Tid \in Seen
    BY IdTypes
  <2>8. Frame("BACKFILL", Tid) \in RcvFrames
    BY <2>7 DEF Frame, RcvFrames
  <2>9. Plain(Frame("BACKFILL", Tid), pc, Tid, Seen, cur[q], drain[q], conn[q].toRcv)
    BY <1>1, <2>6, <2>7, <2>8, FrameFacts DEF Plain
  <2>10. On(pc, Tid, Seen, Past, Now, info[q],
            Sent(conn[q], link[q] = "up", <<Frame("BACKFILL", Tid)>>, fails),
            link[q], cur[q], phase[q], drain[q], task[q])
    BY <2>2, <2>4, <2>9, SentOn
  <2>11. On(pc, Tid, Seen, Past, Now, info'[q], conn'[q],
            link[q], cur[q], phase[q], drain[q], task'[q])
    BY <2>3, <2>10, TaskOn
  <2> QED
    BY <1>1, <2>3, <2>11, OneOn
<1>4. \/ Abandon(q)
      \/ \E fails :
             /\ conn' = [conn EXCEPT ![q] =
                           Sent(@, link[q] = "up", <<Frame("BACKFILL", Tid)>>, fails)]
             /\ task' = [task EXCEPT ![q] = "waiting"]
             /\ UNCHANGED info
  BY Zenon DEF BackfillSend
<1> QED
  BY <1>2, <1>3, <1>4

LEMMA BackfillReadFits ==
    ASSUME Inv, AllFit, NEW q \in Receivers, BackfillRead(q) PROVE AllFit'
<1>1. /\ pc = "backfill" /\ Active /\ task[q] = "waiting" /\ conn[q].toProxy # <<>>
      /\ UNCHANGED <<pc, file, attempt, section, round, centrals, link, cur, phase, drain>>
  BY DEF BackfillRead, attemptVars, rcvVars, Active
<1>2. /\ info \in [Receivers -> Infos] /\ conn \in [Receivers -> Conns]
      /\ task \in [Receivers -> {"none", "todo", "waiting", "done"}]
      /\ info[q] \in Infos /\ conn[q] \in Conns
  BY DEF Inv, TypeOK
<1>3. On(pc, Tid, Seen, Past, Now, info[q], conn[q], link[q], cur[q], phase[q], drain[q], task[q])
  BY <1>1, AllOn DEF OnAt
<1>4. \/ /\ conn' = [conn EXCEPT ![q].toProxy = Tail(@)] /\ UNCHANGED <<info, task>>
      \/ /\ conn' = [conn EXCEPT ![q].toProxy = Tail(@)]
         /\ info' = [info EXCEPT ![q].status = "Failed"] /\ task' = [task EXCEPT ![q] = "done"]
      \/ /\ Head(conn[q].toProxy).type = "RECEIVER_COMPLETE" /\ Head(conn[q].toProxy).id = Tid
         /\ info' = [info EXCEPT ![q] = Confirmed(@)] /\ task' = [task EXCEPT ![q] = "done"]
         /\ SendOn([conn EXCEPT ![q].toProxy = Tail(@)], link, Ack(q))
  BY DEF BackfillRead
<1>5. CASE conn' = [conn EXCEPT ![q].toProxy = Tail(@)] /\ UNCHANGED <<info, task>>
  BY <1>1, <1>3, <1>5, PopOn
<1>6. CASE /\ conn' = [conn EXCEPT ![q].toProxy = Tail(@)]
           /\ info' = [info EXCEPT ![q].status = "Failed"] /\ task' = [task EXCEPT ![q] = "done"]
  <2>1. /\ info'[q] = [info[q] EXCEPT !.status = "Failed"] /\ task'[q] = "done"
        /\ \A r \in Receivers \ {q} : info'[r] = info[r] /\ task'[r] = task[r]
    BY <1>2, <1>6
  <2>2. On(pc, Tid, Seen, Past, Now, [info[q] EXCEPT !.status = "Failed"], conn[q], link[q],
           cur[q], phase[q], drain[q], "done")
    <3>1. ~(pc = "collect" /\ "Failed" = "Missing") /\ "done" \in {task[q], "done"}
      BY <1>1
    <3> QED
      BY <1>2, <1>3, <3>1, StatusFits
  <2>3. On(pc, Tid, Seen, Past, Now, info'[q], conn[q], link[q],
           cur[q], phase[q], drain[q], task'[q])
    BY <2>1, <2>2
  <2> QED
    BY <1>1, <1>6, <2>1, <2>3, PopOn
<1>7. CASE /\ Head(conn[q].toProxy).type = "RECEIVER_COMPLETE" /\ Head(conn[q].toProxy).id = Tid
           /\ info' = [info EXCEPT ![q] = Confirmed(@)] /\ task' = [task EXCEPT ![q] = "done"]
           /\ SendOn([conn EXCEPT ![q].toProxy = Tail(@)], link, Ack(q))
  <2>1. task'[q] # "todo" /\ \A r \in Receivers \ {q} : task'[r] = task[r]
    BY <1>2, <1>7
  <2> QED
    BY <1>1, <1>7, <2>1, ConfirmStep
<1> QED
  BY <1>4, <1>5, <1>6, <1>7

LEMMA BackfillGivesUpFits ==
    ASSUME Inv, AllFit, NEW q \in Receivers, BackfillGivesUp(q) PROVE AllFit'
  BY AbandonStep DEF BackfillGivesUp, attemptVars, rcvVars

LEMMA BackfillEndsFits == ASSUME Inv, AllFit, BackfillEnds PROVE AllFit'
<1> DEFINE known == InfoAfter(Rejoining)
           cs == ConnAfter(Rejoining)
           links == LinkAfter(Rejoining)
           frames == IF Verdict(known) = "Success" THEN NoFrames ELSE FailedFrames(known)
<1>1. /\ pc = "backfill" /\ pc' = "barrier" /\ UNCHANGED <<file, attempt, cur, phase, drain>>
      /\ info' = [r \in Receivers |-> [known[r] EXCEPT !.ready = FALSE]] /\ link' = links
      /\ SendOn(cs, links, frames) /\ task' = [r \in Receivers |-> "none"]
  BY DEF BackfillEnds, Joined, EnterBarrier
<1>2. \A r \in Receivers : task[r] # "todo"
  BY DEF BackfillEnds, Joined
<1>3. Rejoining \in SUBSET Pending
  BY DEF Rejoining
<1>4. ASSUME NEW r \in Receivers
      PROVE  /\ known[r] \in Infos /\ cs[r] \in Conns
             /\ On(pc, Tid, Seen, Past, Now,
                   known[r], cs[r], links[r], cur[r], phase[r], drain[r], task[r])
  <2>1. OnAt(r)
    BY <1>1, AllOn DEF Active
  <2> QED
    BY <1>2, <1>3, <2>1, AcceptForms
<1>5. PICK fails \in SUBSET Receivers :
        \A r \in Receivers : conn'[r] = Sent(cs[r], links[r] = "up", frames[r], r \in fails)
  BY <1>1 DEF SendOn
<1>6. \A r \in Receivers : frames[r] = <<>> \/ frames[r] = <<Frame("TRANSFER_FAILED", Tid)>>
  BY FailedEach DEF NoFrames
<1>7. \A r \in Receivers : info'[r] = Unready(known[r]) /\ link'[r] = links[r] /\ task'[r] # "todo"
  BY <1>1 DEF Unready
<1> HIDE DEF known, cs, links, frames
<1>8. EndsIn(known, cs, links, frames, fails)
  BY <1>4, <1>5, <1>6, <1>7 DEF EndsIn
<1> QED
  BY <1>1, <1>8, BarrierStep

LEMMA StatusLostFits == ASSUME Inv, Control, AllFit, StatusLost PROVE AllFit'
<1>1. /\ pc = "backfill" /\ pc' = "away" /\ mode = "central"
      /\ UNCHANGED <<cur, phase, drain, centrals>>
      /\ info' = InfoAfter(Rejoining) /\ conn' = ConnAfter(Rejoining) /\ link' = LinkAfter(Rejoining)
  BY DEF StatusLost, Joined, FromCentral
<1>2. \A r \in Receivers : task[r] # "todo"
  BY DEF StatusLost, Joined
<1>3. ~Begins' /\ ~Active'
  BY <1>1, ControlFacts DEF Control, Begins, Active
<1>4. ASSUME NEW r \in Receivers
      PROVE  Steady(info'[r], conn'[r], link'[r], cur'[r], phase'[r], drain'[r])
  <2>1. SteadyAt(r) /\ Rejoining \in SUBSET Pending
    BY AllSteady DEF Rejoining
  <2>2. Steady(InfoAfter(Rejoining)[r], ConnAfter(Rejoining)[r], LinkAfter(Rejoining)[r],
               cur[r], phase[r], drain[r])
    BY <1>2, <2>1, AcceptForms
  <2> QED
    BY <1>1, <2>2
<1> QED
  BY <1>3, <1>4, SteadyNext

LEMMA BackfillFits ==
    ASSUME Inv, Control, AllFit,
           \/ \E r \in Receivers : BackfillSend(r) \/ BackfillRead(r) \/ BackfillGivesUp(r)
           \/ BackfillEnds \/ StatusLost
    PROVE  AllFit'
  BY BackfillSendFits, BackfillReadFits, BackfillGivesUpFits, BackfillEndsFits, StatusLostFits

\* The ids that follow are new.
LEMMA NextIds ==
    ASSUME Inv
    PROVE  /\ <<file, attempt + 1>> \notin Seen /\ <<file + 1, 0>> \notin Seen
           /\ file \in Nat /\ attempt \in Nat
           /\ file' = file /\ attempt' = attempt + 1 =>
                 Tid' = <<file, attempt + 1>> /\ Seen \subseteq Seen'
           /\ file' = file + 1 /\ attempt' = 0 => Tid' = <<file + 1, 0>> /\ Seen \subseteq Seen'
<1>1. file \in Nat /\ attempt \in Nat
  BY FilesIsNat, SessionAssumption DEF Inv, TypeOK
<1>2. \A id \in Ids : id[1] \in Nat /\ id[2] \in Nat
  BY FilesIsNat, SessionAssumption DEF Ids, NoId, OldId
<1>3. <<file, attempt + 1>> \notin Seen /\ <<file + 1, 0>> \notin Seen
  BY <1>1 DEF Seen
<1>4. file' = file /\ attempt' = attempt + 1 => Tid' = <<file, attempt + 1>> /\ Seen \subseteq Seen'
  BY <1>1, <1>2 DEF Seen, Tid
<1>5. file' = file + 1 /\ attempt' = 0 => Tid' = <<file + 1, 0>> /\ Seen \subseteq Seen'
  BY <1>1, <1>2 DEF Seen, Tid
<1> QED
  BY <1>1, <1>3, <1>4, <1>5

\* Everybody is free, or was given up.
LEMMA PassedFacts ==
    ASSUME Inv, AllFit, BarrierPassed, NEW r \in Receivers
    PROVE  /\ On("barrier", Tid, Seen, Past, Now, info[r], conn[r], link[r], cur[r], phase[r],
                 drain[r], task[r])
           /\ info[r].ready \/ info[r].abandoned
           /\ info[r].id \in Seen
<1>1. pc = "barrier" /\ Active
  BY DEF BarrierPassed, Active
<1>2. On("barrier", Tid, Seen, Past, Now, info[r], conn[r], link[r], cur[r], phase[r],
         drain[r], task[r])
  BY <1>1, AllOn DEF OnAt
<1>3. ~Watched(r)
  BY <1>1 DEF BarrierPassed, AllAnswered, Answered
<1>4. info[r].ready \/ info[r].abandoned
  BY <1>1, <1>3 DEF Watched
<1> QED
  BY <1>2, <1>4, FitsSays

LEMMA RetryFits == ASSUME Inv, AllFit, Retry PROVE AllFit'
<1>1. /\ BarrierPassed /\ pc' = "begin" /\ attempt' = attempt + 1 /\ ~Active'
      /\ UNCHANGED <<file, info, conn, link, cur, phase, drain>>
  BY DEF Retry, rcvVars, Active
<1>2. Tid' = <<file, attempt + 1>> /\ Tid' \notin Seen /\ Seen \subseteq Seen'
  BY <1>1, NextIds
<1>3. ASSUME NEW r \in Receivers
      PROVE  Off(Tid', Seen', info'[r], conn'[r], link'[r], cur'[r], phase'[r], drain'[r])
  <2>1. Off(Tid', Seen', info[r], conn[r], link[r], cur[r], phase[r], drain[r])
    BY <1>1, <1>2, PassedFacts, NextOff
  <2> QED
    BY <1>1, <2>1
<1> QED
  BY <1>1, <1>3, OffNext

LEMMA FileEndsOff ==
    ASSUME Inv, AllFit, FileEnds, NEW T, T \notin Seen, NEW S, Seen \subseteq S, NEW r \in Receivers
    PROVE  Off(T, S, info'[r], conn'[r], link[r], cur[r], phase[r], drain[r])
<1>1. /\ On("barrier", Tid, Seen, Past, Now, info[r], conn[r], link[r], cur[r], phase[r],
            drain[r], task[r])
      /\ info[r].ready \/ info[r].abandoned
      /\ info[r].id # T
  BY PassedFacts DEF FileEnds
<1>2. Off(T, S, info[r], conn[r], link[r], cur[r], phase[r], drain[r])
  BY <1>1, NextOff
<1>3. CASE result = "Success"
  BY <1>2, <1>3 DEF FileEnds
<1>4. CASE result # "Success"
  <2>1. info[r] \in Infos /\ conn[r] \in Conns /\ Abandoned(r) \in BOOLEAN
    BY Types DEF Abandoned
  <2>2. /\ info'[r] = [info[r] EXCEPT !.abandoned = @ \/ Abandoned(r)]
        /\ conn'[r] = IF Abandoned(r) THEN Closed(conn[r]) ELSE conn[r]
    BY <1>4 DEF FileEnds
  <2> DEFINE j == [info[r] EXCEPT !.abandoned = @ \/ Abandoned(r)]
  <2>3. /\ ~Abandoned(r) => Off(T, S, j, conn[r], link[r], cur[r], phase[r], drain[r])
        /\ Off(T, S, j, Closed(conn[r]), link[r], cur[r], phase[r], drain[r])
    BY <1>1, <1>2, <2>1, AbandonOff
  <2>4. info'[r] = j
    BY <2>2
  <2> HIDE DEF j
  <2> QED
    BY <2>2, <2>3, <2>4
<1> QED
  BY <1>3, <1>4

LEMMA FileEndsFits == ASSUME Inv, Control, AllFit, FileEnds PROVE AllFit'
<1>1. /\ UNCHANGED <<mode, centrals, link, cur, phase, drain>> /\ ~Active' /\ pc = "barrier" /\ Active
      /\ \/ pc' = "begin" /\ file' = file + 1 /\ attempt' = 0
         \/ pc' = "end"
         \/ pc' = "away" /\ mode = "central"
  BY DEF FileEnds, FileDone, rcvVars, Active, BarrierPassed
<1>2. CASE pc' = "begin" /\ file' = file + 1 /\ attempt' = 0
  <2>1. Tid' = <<file + 1, 0>> /\ Tid' \notin Seen /\ Seen \subseteq Seen'
    BY <1>2, NextIds
  <2>2. ASSUME NEW r \in Receivers
        PROVE  Off(Tid', Seen', info'[r], conn'[r], link'[r], cur'[r], phase'[r], drain'[r])
    <3>1. Off(Tid', Seen', info'[r], conn'[r], link[r], cur[r], phase[r], drain[r])
      BY <2>1, FileEndsOff
    <3> QED
      BY <1>1, <3>1
  <2> QED
    BY <1>1, <2>2, OffNext
<1>3. CASE pc' # "begin"
  <2>1. ~Begins'
    BY <1>1, <1>3, ControlFacts DEF Control, Begins
  <2>2. ASSUME NEW r \in Receivers
        PROVE  Steady(info'[r], conn'[r], link'[r], cur'[r], phase'[r], drain'[r])
    <3>1. <<file + 1, 0>> \notin Seen /\ Seen \subseteq Seen
      BY NextIds
    <3>2. Off(<<file + 1, 0>>, Seen, info'[r], conn'[r], link[r], cur[r], phase[r], drain[r])
      BY <3>1, FileEndsOff
    <3> QED
      BY <1>1, <3>2 DEF Off
  <2> QED
    BY <1>1, <2>1, <2>2, SteadyNext
<1> QED
  BY <1>1, <1>2, <1>3

LEMMA CentralConnectsFits ==
    ASSUME Inv, Control, IdsAreFresh', AllFit, CentralConnects PROVE AllFit'
<1>1. /\ pc = "away" /\ pc' = "begin" /\ attempt' = 0 /\ ~Active'
      /\ centrals' = centrals - 1 /\ UNCHANGED <<mode, file, info, conn, link, cur, phase, drain>>
  BY DEF CentralConnects, rcvVars, Active
<1>2. mode # "direct" /\ centrals <= MaxCentrals /\ centrals \in Nat /\ MaxCentrals \in Nat
  BY <1>1, ControlFacts DEF Control, Inv, TypeOK
<1>3. centrals' + 1 >= MaxCentrals
  BY <1>1, <1>2 DEF IdsAreFresh
<1>4. centrals = MaxCentrals
  BY <1>1, <1>2, <1>3
<1>5. Begins /\ attempt = 0
  BY <1>1, <1>4 DEF Begins, Control
<1>6. Tid' = Tid /\ Seen' = Seen
  BY <1>1, <1>5, SameAttempt
<1>7. ASSUME NEW r \in Receivers
      PROVE  Off(Tid', Seen', info'[r], conn'[r], link'[r], cur'[r], phase'[r], drain'[r])
  <2>1. OffAt(r)
    BY <1>5, AtForms
  <2> QED
    BY <1>1, <1>6, <2>1 DEF OffAt
<1> QED
  BY <1>1, <1>7, OffNext

LEMMA EndFits ==
    ASSUME Inv, Control, AllFit, Rethrow \/ SessionEnd \/ SessionEndLost PROVE AllFit'
<1>1. CASE Rethrow \/ SessionEndLost
  <2>1. UNCHANGED <<info, conn, link, cur, phase, drain>>
    BY <1>1 DEF Rethrow, SessionEndLost, rcvVars
  <2>3. ~Begins' /\ ~Active'
    <3>1. CASE Rethrow
      <4>1. pc' = "away" /\ pc = "barrier" /\ after = "rethrow" /\ UNCHANGED <<mode, centrals>>
        BY <3>1 DEF Rethrow, BarrierPassed, attemptVars
      <4> QED
        BY <4>1, ControlFacts DEF Control, Active, Begins
    <3>2. CASE SessionEndLost
      <4>1. pc' = "away" /\ pc = "end" /\ mode = "central" /\ centrals' = 0
        BY <3>2 DEF SessionEndLost
      <4> QED
        BY <4>1, ControlFacts DEF Control, Active, Begins
    <3> QED
      BY <1>1, <3>1, <3>2
  <2>4. ASSUME NEW r \in Receivers
        PROVE  Steady(info'[r], conn'[r], link'[r], cur'[r], phase'[r], drain'[r])
    BY <2>1, AllSteady DEF SteadyAt
  <2> QED
    BY <2>3, <2>4, SteadyNext
<1>2. CASE SessionEnd
  <2>1. /\ pc = "end" /\ pc' = "over" /\ UNCHANGED <<cur, phase, drain>>
        /\ info' = InfoAfter(Pending) /\ link' = LinkAfter(Pending)
        /\ ~Begins' /\ ~Active'
    BY <1>2 DEF SessionEnd, Begins, Active
  <2>2. PICK fails \in SUBSET Receivers :
          \A r \in Receivers : conn'[r] = Sent(ConnAfter(Pending)[r], LinkAfter(Pending)[r] = "up",
                                               <<Frame("SESSION_END", NoId)>>, r \in fails)
    BY <1>2, <2>1 DEF SessionEnd, SendOn
  <2>3. /\ Frame("SESSION_END", NoId) \in RcvFrames
        /\ Frame("SESSION_END", NoId).type = "SESSION_END"
    BY IdTypes DEF Frame, RcvFrames, Ids
  <2>4. ASSUME NEW r \in Receivers
        PROVE  Steady(info'[r], conn'[r], link'[r], cur'[r], phase'[r], drain'[r])
    <3>1. SteadyAt(r) /\ task[r] # "todo"
      BY <2>1, AllSteady DEF Control
    <3>2. /\ ConnAfter(Pending)[r] \in Conns
          /\ Steady(InfoAfter(Pending)[r], ConnAfter(Pending)[r], LinkAfter(Pending)[r],
                    cur[r], phase[r], drain[r])
      BY <3>1, AcceptForms
    <3>3. Steady(InfoAfter(Pending)[r],
                 Sent(ConnAfter(Pending)[r], LinkAfter(Pending)[r] = "up",
                      <<Frame("SESSION_END", NoId)>>, r \in fails),
                 LinkAfter(Pending)[r], cur[r], phase[r], drain[r])
      <4> DEFINE f == Frame("SESSION_END", NoId)
      <4>1. f \in RcvFrames /\ f.type \in {"COMPLETE_ACK", "TRANSFER_FAILED", "SESSION_END"}
        BY <2>3
      <4> HIDE DEF f
      <4>2. Steady(InfoAfter(Pending)[r],
                   Sent(ConnAfter(Pending)[r], LinkAfter(Pending)[r] = "up", <<f>>, r \in fails),
                   LinkAfter(Pending)[r], cur[r], phase[r], drain[r])
        BY <3>2, <4>1, SentSteady
      <4> QED
        BY <4>2 DEF f
    <3> QED
      BY <2>1, <2>2, <3>3
  <2> QED
    BY <2>1, <2>4, SteadyNext
<1> QED
  BY <1>1, <1>2

\* A file in the cache is offered again only when ids are not fresh.
LEMMA CachedFileNot == ASSUME Inv, Control, IdsAreFresh, CachedFile PROVE FALSE
  BY DEF CachedFile, FromCentral, Control, Begins

LEMMA OrderlyNext == Inv /\ Orderly /\ [Next]_vars => Orderly'
<1> SUFFICES ASSUME Inv, Orderly, [Next]_vars PROVE Orderly'
  OBVIOUS
<1>1. Control /\ Control' /\ (IdsAreFresh' => IdsAreFresh)
  BY ControlNext DEF Orderly, Controlled
<1>2. ASSUME IdsAreFresh' PROVE AllFit'
  <2>1. AllFit /\ IdsAreFresh
    BY <1>1, <1>2 DEF Orderly, AllFit
  <2>2. CASE UNCHANGED vars
    <3>1. ASSUME NEW r \in Receivers PROVE FitsAt(r)'
      BY <2>1, <2>2 DEF AllFit, FitsAt, vars, attemptVars, rcvVars, Begins, Active, Tid, Seen, Past, Now
    <3> QED
      BY <3>1 DEF AllFit
  <2>3. CASE \E r \in Receivers : ReceiverStep(r) \/ Break(r) \/ Die(r)
    BY <2>1, <2>3, ReceiverFits
  <2>4. CASE (\E r \in Receivers : Register(r)) \/ Poll \/ ReadNothing \/ ReadMetaReady
             \/ ReadReport \/ ReadReady \/ WaitThrows
    BY <1>1, <2>1, <2>4, RegisterFits, PollFits, ReadNothingFits, ReadMetaReadyFits, ReadReportFits,
       ReadReadyFits, WaitThrowsFits
  <2>5. CASE Begin \/ AllReady \/ SendSection \/ CollectMismatch \/ CloseSection \/ RepairRound
             \/ RoundsExhausted \/ SectionsEnd \/ CentralFails
    BY <1>1, <2>1, <2>5, BeginStepFits, AllReadyFits, SendSectionFits, RepairRoundFits, SectionsFits
  <2>6. CASE \/ \E r \in Receivers : BackfillSend(r) \/ BackfillRead(r) \/ BackfillGivesUp(r)
             \/ BackfillEnds \/ StatusLost
    BY <1>1, <2>1, <2>6, BackfillFits
  <2>7. CASE Retry \/ FileEnds \/ CentralConnects \/ CachedFile
    BY <1>1, <1>2, <2>1, <2>7, RetryFits, FileEndsFits, CentralConnectsFits, CachedFileNot
  <2>8. CASE Rethrow \/ SessionEnd \/ SessionEndLost
    BY <1>1, <2>1, <2>8, EndFits
  <2> QED
    BY <2>2, <2>3, <2>4, <2>5, <2>6, <2>7, <2>8 DEF Next, ProxyStep, Stopped
<1> QED
  BY <1>1, <1>2 DEF Orderly, AllFit

LEMMA OrderlyInit == Init => Orderly
<1> SUFFICES ASSUME Init PROVE Orderly
  OBVIOUS
<1>1. Inv /\ Begins /\ ~Active
  BY InitInv DEF Init, Begins, Active
<1>2. /\ pc = "register" /\ attempt = 0 /\ after = "verdict" /\ cached = FALSE /\ batch = <<>>
      /\ \A r \in Receivers : task[r] = "none"
  BY DEF Init
<1>3. Control
  BY <1>1, <1>2 DEF Control
<1>4. ASSUME NEW r \in Receivers PROVE OffAt(r)
  <2>1. /\ info[r].completed = FALSE /\ info[r].id = NoId /\ info[r].meta = NoId
        /\ conn[r].open = FALSE /\ conn[r].toRcv = <<>> /\ conn[r].toProxy = <<>>
        /\ link[r] = "pending" /\ drain[r] = <<>> /\ (phase[r] = "idle" <=> cur[r] = NoId)
    BY DEF Init, Closed, Fresh
  <2>2. cur[r] \in {NoId, OldId, <<1, 0>>}
    BY DEF Init
  <2>3. NoId \in Seen /\ OldId \in Seen /\ <<1, 0>> \in Seen /\ Tid # NoId
    <3>1. file = 1 /\ attempt = 0
      BY DEF Init
    <3>2. NoId \in Ids /\ OldId \in Ids /\ <<1, 0>> \in Ids
      BY FilesIsNat, SessionAssumption DEF Ids
    <3>3. NoId[1] = 0 /\ OldId[1] = 0 /\ <<1, 0>>[1] = 1 /\ <<1, 0>>[2] = 0
      BY DEF NoId, OldId
    <3> QED
      BY <1>1, <3>1, <3>2, <3>3, IdTypes DEF Seen
  <2>4. Steady(info[r], conn[r], link[r], cur[r], phase[r], drain[r])
    BY <2>1, EmptyFacts DEF Steady, Rest
  <2>5. Within(Seen, info[r], conn[r], cur[r])
    BY <2>1, <2>2, <2>3, NoMessages DEF Within
  <2>6. Unbegun(Tid, info[r], conn[r], cur[r], phase[r], drain[r])
    BY <2>1, <2>3, EmptyFacts DEF Unbegun
  <2> QED
    BY <2>4, <2>5, <2>6 DEF OffAt, Off
<1>5. AllFit
  BY <1>1, <1>4, AtForms
<1> QED
  BY <1>3, <1>5 DEF Orderly, AllFit

------------------------------------------------------------------------------
(* The receivers are kept apart from what was before *)

\* Orderly holds throughout: NoClashFresh and CompletedStays are not inductive, what
\* is in the queues and what the receiver and its record at the proxy have become is.
THEOREM SessionIsOrderly == Spec => []Orderly
<1>1. Init => Orderly
  BY OrderlyInit
<1>2. Inv /\ Orderly /\ [Next]_vars => Orderly'
  BY OrderlyNext
<1> QED
  BY <1>1, <1>2, Invariance, PTL DEF Spec

LEMMA OrderlyNoClash == Inv /\ Orderly => NoClashFresh
<1> SUFFICES ASSUME Inv, Orderly, IdsAreFresh, NEW r \in Receivers, Clashes(r) PROVE FALSE
  BY DEF NoClashFresh, NoClash
<1>1. SteadyAt(r)
  BY AllSteady DEF Orderly, AllFit
<1>2. conn[r].toRcv \in Seq(RcvFrames) /\ conn[r].toRcv # <<>>
  BY Types DEF Conns, Clashes, Receives
<1>3. /\ Len(conn[r].toRcv) \in Nat /\ Len(conn[r].toRcv) >= 1
      /\ Head(conn[r].toRcv) = conn[r].toRcv[1]
  BY <1>2, TailFacts
<1>4. /\ conn[r].toRcv[1].type = "FILE_META"
      /\ cur[r] # NoId /\ cur[r] # conn[r].toRcv[1].id
  BY <1>3 DEF Clashes, Receives
<1>5. Handed(cur[r], phase[r], drain[r], conn[r].toRcv)
  BY <1>1 DEF SteadyAt, Steady
<1> QED
  BY <1>3, <1>4, <1>5 DEF Handed

\* As long as no transfer id is used again, the barrier, the begin of an attempt and
\* the registration of a receiver never hand it a FILE_META while it has another
\* transfer: handle_control_message never throws on one.
THEOREM NoReceiverClashes == Spec => []NoClashFresh
<1>1. Inv /\ Orderly => NoClashFresh
  BY OrderlyNoClash
<1> QED
  BY <1>1, Invariance, SessionIsOrderly, PTL

\* A receiver that completed the transfer and registers again is recognised.
LEMMA InstallKeeps ==
    ASSUME Inv, AllFit, NEW S, S \subseteq Pending, NEW r \in Receivers, info[r].completed
    PROVE  InfoAfter(S)[r].completed
<1>1. InfoAfter(S)[r] = IF r \in S THEN Installed(info[r], Registration(r)) ELSE info[r]
  BY DEF InfoAfter
<1>2. CASE r \notin S
  BY <1>1, <1>2
<1>3. CASE r \in S
  <2> DEFINE i  == info[r]
             rg == Registration(r)
  <2>1. i \in Infos /\ rg = RegOf(cur[r], phase[r])
    BY Types
  <2>2. Rest(cur[r], phase[r], drain[r]) /\ Finished(cur[r], phase[r], drain[r], conn[r].toRcv, i.meta)
    BY AllSteady DEF SteadyAt, Steady
  <2>3. \/ rg.state = "Idle"
        \/ rg.state = "Completed" /\ rg.id = i.meta
    BY <2>1, <2>2, RegOfFacts DEF Rest, Finished
  <2>4. ~Reopened(i, rg, Installed(i, rg), InstallFrames(i, rg))
    BY <2>3 DEF Reopened
  <2>5. Installed(i, rg).completed
    BY <2>1, <2>4, InstallWays DEF Taken, Recovered
  <2> QED
    BY <1>1, <1>3, <2>5
<1> QED
  BY <1>2, <1>3

StaysCompleted == \A r \in Receivers : info[r].completed => info'[r].completed

\* A receiver that was counted as completed remains so until the next file begins.
LEMMA CompletedStep ==
    ASSUME Inv, Orderly, IdsAreFresh, pc \notin {"begin", "away"}, [Next]_vars
    PROVE  StaysCompleted
<1>1. AllFit /\ info \in [Receivers -> Infos]
  BY DEF Orderly, AllFit, Inv, TypeOK
<1>2. ASSUME NEW r \in Receivers PROVE info[r] \in Infos
  BY <1>1
<1>3. CASE UNCHANGED info
  BY <1>3 DEF StaysCompleted
<1>4. CASE \E r \in Receivers : Register(r)
  <2>1. PICK r \in Receivers : Register(r)
    BY <1>4
  <2>2. info' = InfoAfter({r}) /\ {r} \subseteq Pending
    BY <2>1 DEF Register
  <2> QED
    BY <1>1, <2>2, InstallKeeps DEF StaysCompleted
<1>5. CASE Poll
  <2>1. CASE UNCHANGED info
    BY <2>1, <1>3
  <2>2. CASE \E r \in Pending : info' = InfoAfter({r})
    <3>1. PICK r \in Pending : info' = InfoAfter({r})
      BY <2>2
    <3> QED
      BY <1>1, <3>1, InstallKeeps DEF StaysCompleted
  <2> QED
    BY <1>5, <2>1, <2>2 DEF Poll
<1>6. CASE BackfillEnds
  <2>1. info' = [r \in Receivers |-> [InfoAfter(Rejoining)[r] EXCEPT !.ready = FALSE]]
    BY <1>6 DEF BackfillEnds, EnterBarrier
  <2>2. Rejoining \subseteq Pending
    BY DEF Rejoining
  <2>3. ASSUME NEW r \in Receivers, info[r].completed PROVE info'[r].completed
    <3>1. InfoAfter(Rejoining)[r].completed
      BY <1>1, <2>2, <2>3, InstallKeeps
    <3>2. info'[r] = [InfoAfter(Rejoining)[r] EXCEPT !.ready = FALSE]
      BY <2>1
    <3>3. InfoAfter(Rejoining)[r] \in Infos
      <4>1. task[r] # "todo"
        BY <1>6 DEF BackfillEnds, Joined
      <4> QED
        BY <2>2, <4>1, AcceptForms
    <3> QED
      BY <3>1, <3>2, <3>3 DEF Infos
  <2> QED
    BY <2>3 DEF StaysCompleted
<1>7. CASE StatusLost
  <2>1. info' = InfoAfter(Rejoining) /\ Rejoining \subseteq Pending
    BY <1>7 DEF StatusLost, Rejoining
  <2> QED
    BY <1>1, <2>1, InstallKeeps DEF StaysCompleted
<1>8. CASE SessionEnd
  <2>1. info' = InfoAfter(Pending)
    BY <1>8 DEF SessionEnd
  <2> QED
    BY <1>1, <2>1, InstallKeeps DEF StaysCompleted
<1>9. CASE ReadMetaReady
  <2>1. \/ UNCHANGED info
        \/ info' = [info EXCEPT ![Front].metaReady = TRUE,
                                ![Front].state = "Receiving", ![Front].id = Tid]
        \/ info' = [info EXCEPT ![Front] = Confirmed(@)]
    BY <1>9 DEF ReadMetaReady
  <2>2. ASSUME NEW r \in Receivers, info[r].completed PROVE info'[r].completed
    <3>1. \/ info'[r] = info[r]
          \/ info'[r] = [info[r] EXCEPT !.metaReady = TRUE, !.state = "Receiving", !.id = Tid]
          \/ info'[r] = Confirmed(info[r])
      BY <1>1, <2>1
    <3> QED
      BY <1>2, <2>2, <3>1 DEF Infos, Confirmed
  <2> QED
    BY <2>2 DEF StaysCompleted
<1>10. CASE ReadReport
  <2>1. \/ UNCHANGED info
        \/ info' = [info EXCEPT ![Front].status = Got.code]
        \/ info' = [info EXCEPT ![Front] = Confirmed(@)]
    BY <1>10 DEF ReadReport
  <2>2. ASSUME NEW r \in Receivers, info[r].completed PROVE info'[r].completed
    <3>1. \/ info'[r] = info[r]
          \/ info'[r] = [info[r] EXCEPT !.status = Got.code]
          \/ info'[r] = Confirmed(info[r])
      BY <1>1, <2>1
    <3> QED
      BY <1>2, <2>2, <3>1 DEF Infos, Confirmed
  <2> QED
    BY <2>2 DEF StaysCompleted
<1>11. CASE ReadReady
  <2>1. \/ UNCHANGED info
        \/ info' = [info EXCEPT ![Front].ready = TRUE, ![Front].state = "Idle",
                                ![Front].id = NoId, ![Front].meta = NoId]
    BY <1>11 DEF ReadReady
  <2> QED
    BY <1>1, <1>2, <2>1 DEF Infos, StaysCompleted
<1>12. CASE SendSection \/ RepairRound
  <2>1. info' = RoundReset(info) \/ info' = RoundReset(Isolated)
    BY <1>12 DEF SendSection, RepairRound
  <2>2. ASSUME NEW r \in Receivers
        PROVE  Isolated[r].completed = info[r].completed /\ Isolated[r] \in Infos
    BY <1>2 DEF Isolated, Infos
  <2>3. ASSUME NEW r \in Receivers PROVE info'[r].completed = info[r].completed
    <3>1. \/ info'[r] = [info[r] EXCEPT !.status = "NO_REPORT", !.ready = FALSE]
          \/ info'[r] = [Isolated[r] EXCEPT !.status = "NO_REPORT", !.ready = FALSE]
      BY <2>1 DEF RoundReset
    <3> QED
      BY <1>2, <2>2, <3>1 DEF Infos
  <2> QED
    BY <2>3 DEF StaysCompleted
<1>13. CASE CollectMismatch \/ CloseSection \/ RoundsExhausted \/ SectionsEnd \/ CentralFails
  <2>1. \/ UNCHANGED info
        \/ info' = Isolated
        \/ info' = [r \in Receivers |-> [info[r] EXCEPT !.ready = FALSE]]
        \/ info' = [r \in Receivers |-> [Isolated[r] EXCEPT !.ready = FALSE]]
    BY <1>13 DEF CollectMismatch, CloseSection, RoundsExhausted, SectionsEnd, CentralFails,
                 EnterBarrier
  <2>2. ASSUME NEW r \in Receivers
        PROVE  Isolated[r].completed = info[r].completed /\ Isolated[r] \in Infos
    BY <1>2 DEF Isolated, Infos
  <2>3. ASSUME NEW r \in Receivers PROVE info'[r].completed = info[r].completed
    <3>1. \/ info'[r] = info[r] \/ info'[r] = Isolated[r]
          \/ info'[r] = [info[r] EXCEPT !.ready = FALSE]
          \/ info'[r] = [Isolated[r] EXCEPT !.ready = FALSE]
      BY <2>1
    <3> QED
      BY <1>2, <2>2, <3>1 DEF Infos
  <2> QED
    BY <2>3 DEF StaysCompleted
<1>14. CASE \E r \in Receivers : BackfillSend(r) \/ BackfillRead(r) \/ BackfillGivesUp(r)
  <2>1. PICK r \in Receivers : BackfillSend(r) \/ BackfillRead(r) \/ BackfillGivesUp(r)
    BY <1>14
  <2>2. \/ UNCHANGED info
        \/ info' = [info EXCEPT ![r].abandoned = TRUE]
        \/ info' = [info EXCEPT ![r].status = "Failed"]
        \/ info' = [info EXCEPT ![r] = Confirmed(@)]
    BY <2>1 DEF BackfillSend, BackfillRead, BackfillGivesUp, Abandon
  <2>3. ASSUME NEW q \in Receivers, info[q].completed PROVE info'[q].completed
    <3>1. \/ info'[q] = info[q]
          \/ info'[q] = [info[q] EXCEPT !.abandoned = TRUE]
          \/ info'[q] = [info[q] EXCEPT !.status = "Failed"]
          \/ info'[q] = Confirmed(info[q])
      BY <1>1, <2>2
    <3> QED
      BY <1>2, <2>3, <3>1 DEF Infos, Confirmed
  <2> QED
    BY <2>3 DEF StaysCompleted
<1>15. CASE FileEnds
  <2>1. \/ UNCHANGED info
        \/ info' = [r \in Receivers |-> [info[r] EXCEPT !.abandoned = @ \/ Abandoned(r)]]
    BY <1>15 DEF FileEnds
  <2> QED
    BY <1>1, <1>2, <2>1 DEF Infos, StaysCompleted
<1>16. CASE Begin \/ CachedFile \/ CentralConnects
  BY <1>16 DEF Begin, CachedFile, CentralConnects
<1>17. CASE \/ ReadNothing \/ WaitThrows \/ AllReady \/ Rethrow \/ Retry \/ SessionEndLost
            \/ UNCHANGED vars
  BY <1>3, <1>17 DEF ReadNothing, WaitThrows, AllReady, Rethrow, Retry, SessionEndLost, vars
<1>18. CASE \E r \in Receivers : ReceiverStep(r) \/ Break(r) \/ Die(r)
  BY <1>3, <1>18 DEF ReceiverStep, RcvFrame, RcvClash, RcvSessionEnd, RcvReport, Reconnect,
                     SeesClose, Break, Die
<1> QED
  BY <1>4, <1>5, <1>6, <1>7, <1>8, <1>9, <1>10, <1>11, <1>12, <1>13, <1>14, <1>15, <1>16, <1>17,
     <1>18 DEF Next, ProxyStep, Stopped

\* Within an attempt install_receiver_connection and the waits never take a receiver
\* that completed the file back to an incomplete one, however often it reconnects, as
\* long as no transfer id is used again.
THEOREM CompletedStaysCompleted == Spec => CompletedStays
<1>1. Inv /\ Orderly /\ [Next]_vars =>
      [IdsAreFresh /\ pc \notin {"begin", "away"} =>
         \A r \in Receivers : info[r].completed => info'[r].completed]_vars
  BY CompletedStep DEF StaysCompleted
<1> QED
  BY <1>1, Invariance, SessionIsOrderly, PTL DEF Spec, CompletedStays
==============================================================================
