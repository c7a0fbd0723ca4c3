------------------------------- MODULE Seeding -------------------------------
(***************************************************************************)
(* torrent.c: when a torrent has seeded enough, and its errors.  A torrent   *)
(* reaches its ratio or its idle limit, is stopped by the next pulse and     *)
(* may be started again; trackers and the torrent's own troubles set and     *)
(* clear its error.                                                         *)
(***************************************************************************)
EXTENDS Naturals, Sequences

CONSTANTS Ratios,        \* ratios that may be wanted
          Size,          \* sizeWhenDone; bytes are counted in pieces
          IdleMinutes,   \* idle limits
          MaxBytes, MaxSeedCalls
ASSUME SeedingAssumption == /\ Ratios \subseteq Nat /\ IdleMinutes \subseteq Nat \ {0}
                            /\ {Size, MaxBytes, MaxSeedCalls} \subseteq Nat

LimitModes == {"GLOBAL", "SINGLE", "UNLIMITED"}
Troubles == {"OK", "TRACKER_WARNING", "TRACKER_ERROR", "LOCAL_ERROR"}

VARIABLES
    tor,        \* isRunning, isStopping, isQueued, completeness, finishedSeedingByIdle, error
    limit,      \* limit.ratio and limit.idle: the torrent's mode and value; the session's
    bytes,      \* uploaded and downloaded, in this run and before; minutes without activity
    posted2,    \* calls of stopTorrent and torrentStartImpl that wait in the pipe, in order
    wish,       \* what the user did last, and what happened since
    seedCalls
seedVars == <<tor, limit, bytes, posted2, wish, seedCalls>>
SeedCall == seedCalls < MaxSeedCalls /\ seedCalls' = seedCalls + 1

SeedingInit ==
    /\ tor = [running |-> FALSE, stopping |-> FALSE, seed |-> FALSE, complete |-> FALSE, byIdle |-> FALSE, error |-> "OK"]
    /\ \E r \in Ratios, m \in IdleMinutes, rl, il \in BOOLEAN :
         limit = [ratio |-> [mode |-> "GLOBAL", value |-> r, all |-> r, on |-> rl],
                  idle  |-> [mode |-> "GLOBAL", value |-> m, all |-> m, on |-> il]]
    /\ bytes = [up |-> 0, down |-> 0, upPrev |-> 0, downPrev |-> 0, idle |-> 0]
    /\ posted2 = <<>>
    /\ wish = [start |-> FALSE, honest |-> TRUE, ended |-> FALSE] /\ seedCalls = 0

(***************************************************************************)
(* The limits                                                              *)
(***************************************************************************)
(* tr_torrentGetSeedRatio, tr_torrentGetSeedIdle *)
IsLimited2(l) == l.mode = "SINGLE" \/ (l.mode = "GLOBAL" /\ l.on)
LimitOf(l) == IF l.mode = "SINGLE" THEN l.value ELSE l.all
(* tr_torrentGetSeedRatioBytes: what was downloaded, or the size *)
Baseline == IF bytes.down + bytes.downPrev > 0 THEN bytes.down + bytes.downPrev ELSE Size
Goal == Baseline * LimitOf(limit.ratio)
Uploaded == bytes.up + bytes.upPrev
BytesLeft == IF Goal > Uploaded THEN Goal - Uploaded ELSE 0
(* tr_torrentIsSeedRatioDone *)
RatioDone(t) == IsLimited2(limit.ratio) /\ t.seed /\ BytesLeft = 0
(* tr_torrentIsSeedIdleLimitDone: since the start, or the last activity *)
IdleDone == IsLimited2(limit.idle) /\ bytes.idle >= LimitOf(limit.idle)

(* tr_torrentCheckSeedLimit *)
CheckSeedLimit(t) ==
    IF ~t.running \/ t.stopping \/ ~t.seed THEN t
    ELSE IF RatioDone(t) THEN [t EXCEPT !.stopping = TRUE]
    ELSE IF IdleDone THEN [t EXCEPT !.stopping = TRUE, !.byIdle = TRUE] ELSE t

(* tr_torrentSetLocalError *)
LocalError(t) == [t EXCEPT !.error = "LOCAL_ERROR", !.stopping = @ \/ t.running]
ClearError(t) == [t EXCEPT !.error = "OK"]

(* tr_torrentRecheckCompleteness, as far as the limits go *)
RecheckSeed(t) ==
    IF t.seed = t.complete THEN t
    ELSE LET now == [t EXCEPT !.seed = t.complete]
         IN  IF now.seed /\ t.running THEN CheckSeedLimit(now) ELSE now

(***************************************************************************)
(* The event thread                                                        *)
(***************************************************************************)
(* stopTorrent leaves the torrent as tr_torrentStop made it                 *)
(* torrentStartImpl, tr_torrentResetTransferStats                           *)
StartImpl ==
    /\ tor' = [ClearError(RecheckSeed(tor)) EXCEPT !.running = TRUE, !.byIdle = FALSE, !.seed = tor.complete]
    /\ bytes' = [up |-> 0, down |-> 0, idle |-> 0, upPrev |-> Uploaded, downPrev |-> bytes.down + bytes.downPrev]
RunsPosted ==
    /\ posted2 # <<>> /\ posted2' = Tail(posted2)
    /\ IF Head(posted2) = "start" THEN StartImpl ELSE UNCHANGED <<tor, bytes>>
    /\ UNCHANGED <<limit, wish, seedCalls>>

(* bandwidthPulse, for one torrent: its stop is carried out at once *)
SeedPulse ==
    LET checked == RecheckSeed(CheckSeedLimit(tor))
    IN  /\ tor' = IF checked.stopping THEN [checked EXCEPT !.running = FALSE, !.stopping = FALSE] ELSE checked
        /\ wish' = [wish EXCEPT !.ended = @ \/ (checked.stopping /\ posted2 = <<>>),
                                !.honest = IF checked.stopping /\ ~tor.stopping
                                           THEN @ /\ (RatioDone(checked) \/ IdleDone) ELSE @]
        /\ tor' # tor
        /\ UNCHANGED <<limit, bytes, posted2, seedCalls>>

(* Data go to peers and come from them; a minute passes without *)
Transfers(up, down) ==
    /\ tor.running /\ posted2 = <<>> /\ up + down > 0
    /\ Uploaded + up <= MaxBytes /\ bytes.down + bytes.downPrev + down <= MaxBytes
    /\ down > 0 => ~tor.complete
    /\ bytes' = [bytes EXCEPT !.up = @ + up, !.down = @ + down, !.idle = 0]
    /\ \E c \in BOOLEAN : tor' = [tor EXCEPT !.complete = @ \/ (c /\ down > 0)]
    /\ UNCHANGED <<limit, posted2, wish, seedCalls>>
MinuteIdle ==
    /\ \E m \in IdleMinutes : bytes.idle < m
    /\ bytes' = [bytes EXCEPT !.idle = @ + 1]
    /\ UNCHANGED <<tor, limit, posted2, wish, seedCalls>>
(* A block cannot be written, or a piece turns out bad when it is verified *)
Fails ==
    /\ SeedCall /\ tor.running
    /\ tor' = LocalError(tor) /\ UNCHANGED <<limit, bytes, posted2, wish>>
(* onTrackerResponse *)
TrackerSays(event) ==
    /\ SeedCall
    /\ tor' = CASE event = "CLEAR" -> IF tor.error # "LOCAL_ERROR" THEN ClearError(tor) ELSE tor
                [] OTHER -> [tor EXCEPT !.error = event]
    /\ tor' # tor
    /\ UNCHANGED <<limit, bytes, posted2, wish>>

(***************************************************************************)
(* The user                                                                *)
(***************************************************************************)
(* Mutant: the limit that is reached stays *)
Allowed_Again(t) == limit
(* "allow finished torrents to be resumed" *)
Allowed(t) == IF RatioDone(t) THEN [limit EXCEPT !.ratio.mode = "UNLIMITED"] ELSE limit
(* torrentStart: the limit that is reached is not asked for again; when the    *)
(* files are gone that is an error                                            *)
UserStart(files) ==
    /\ SeedCall /\ ~tor.running
    /\ IF ~files THEN tor' = LocalError(tor) /\ UNCHANGED <<limit, posted2, wish>>
       ELSE /\ tor' = [tor EXCEPT !.running = TRUE]
            /\ limit' = Allowed(tor)
            /\ posted2' = Append(posted2, "start")
            /\ wish' = [start |-> tor.seed = tor.complete, honest |-> TRUE, ended |-> FALSE]
    /\ UNCHANGED bytes
(* tr_torrentStop *)
UserStop ==
    /\ SeedCall /\ tor.running
    /\ tor' = [tor EXCEPT !.running = FALSE, !.stopping = FALSE]
    /\ posted2' = Append(posted2, "stop")
    /\ wish' = [start |-> FALSE, honest |-> TRUE, ended |-> FALSE]
    /\ UNCHANGED <<limit, bytes>>
(* tr_torrentSetRatioMode, -RatioLimit, -IdleMode, -IdleLimit; and the session's *)
SetSeedLimit(kind, l) ==
    /\ SeedCall /\ limit[kind] # l
    /\ limit' = [limit EXCEPT ![kind] = l]
    /\ wish' = [wish EXCEPT !.start = FALSE]
    /\ UNCHANGED <<tor, bytes, posted2>>

SeedingNext ==
    \/ RunsPosted
    \/ SeedPulse
    \/ \E up, down \in 0..1 : Transfers(up, down)
    \/ MinuteIdle
    \/ Fails
    \/ \E event \in {"TRACKER_WARNING", "TRACKER_ERROR", "CLEAR"} : TrackerSays(event)
    \/ \E files \in BOOLEAN : UserStart(files)
    \/ UserStop
    \/ \E kind \in {"ratio", "idle"} :
         \/ \E m \in LimitModes : SetSeedLimit(kind, [limit[kind] EXCEPT !.mode = m])
         \/ \E on \in BOOLEAN : SetSeedLimit(kind, [limit[kind] EXCEPT !.on = on])
    \/ \E r \in Ratios : SetSeedLimit("ratio", [limit.ratio EXCEPT !.value = r])
SeedingSpec == SeedingInit /\ [][SeedingNext]_seedVars

(***************************************************************************)
(* tr_torrentStat                                                          *)
(***************************************************************************)
Finished == tor.byIdle \/ (RatioDone(tor) /\ tor.complete)
SeedRatioPercentDone == IF ~(IsLimited2(limit.ratio) /\ tor.seed) \/ Finished THEN 100
                        ELSE IF Goal = 0 THEN 0 ELSE ((Goal - BytesLeft) * 100) \div Goal

(***************************************************************************)
(* Properties                                                              *)
(***************************************************************************)
(* The limits stop a torrent only for what it has reached, and what a user    *)
(* started on purpose after that is not stopped by the ratio again; a torrent *)
(* that is done by idling is at rest, and the percentage is one.              *)
SeedingSound ==
    /\ tor.error \in Troubles /\ (tor.stopping => tor.running)
    /\ wish.honest
    /\ wish.start /\ tor.running /\ bytes.up + bytes.down = 0 => ~RatioDone(tor)
    /\ SeedRatioPercentDone \in 0..100
    /\ wish.start /\ posted2 = <<>> => tor.running \/ wish.ended
    /\ tor.byIdle /\ tor.running => tor.stopping \/ posted2 # <<>>
=============================================================================
