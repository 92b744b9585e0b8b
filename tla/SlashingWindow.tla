---------------------------- MODULE SlashingWindow ----------------------------
(***************************************************************************)
(* The slashing engine of modules/slashing/keeper.go: the missed-block     *)
(* sliding window of handleValidatorSignature with its downtime jail and  *)
(* reset, double-sign evidence (handleDoubleSign) and proposer-censorship *)
(* evidence (handleProposerCensorship), against the validator-set         *)
(* pipeline of the consensus engine: the set fixed by EndBlock(H) signs   *)
(* from block H+2 on, so the LastCommit handled in BeginBlock(H) holds    *)
(* the signers of block H-1, chosen at EndBlock(H-3).                      *)
(*                                                                         *)
(* Stake is reduced to what the handlers read and write: each validator's *)
(* status and jailed flag. A call of Slash is recorded in slashLog with   *)
(* its kind and distribution height; its effect on tokens is left to the *)
(* staking models.                                                         *)
(***************************************************************************)
EXTENDS Integers, Sequences, SequencesExt, FiniteSets

CONSTANTS
    Validators,              \* consensus addresses of the validators
    SignedBlocksWindow,      \* slashing parameter SignedBlocksWindow
    MinSignedPerWindow,      \* slashing parameter MinSignedPerWindow (blocks)
    MaxEvidenceAge,          \* slashing parameter MaxEvidenceAge, in blocks
    DowntimeJailDuration,    \* slashing parameter, in block-time units
    DoubleSignJailDuration,  \* slashing parameter, in block-time units
    CensorshipJailDuration,  \* slashing parameter, in block-time units
    UnbondingTime,           \* stake parameter UnbondingTime
    ValidatorUpdateDelay,    \* stake.ValidatorUpdateDelay
    TimeSteps,               \* block-time increments between two blocks
    EvidenceHeights,         \* infraction heights evidence may name
    MaxHeight                \* bound: the last block of a behaviour

ASSUME /\ SignedBlocksWindow \in Nat \ {0}
       /\ MinSignedPerWindow \in 0..SignedBlocksWindow
       /\ MaxEvidenceAge \in Nat
       /\ {DowntimeJailDuration, DoubleSignJailDuration,
           CensorshipJailDuration, UnbondingTime} \subseteq Nat
       /\ ValidatorUpdateDelay \in Nat
       /\ TimeSteps \subseteq Nat \ {0} /\ TimeSteps # {}
       /\ MaxHeight \in Nat \ {0}
       /\ EvidenceHeights \subseteq 1..MaxHeight

VARIABLES
    height,         \* ctx.BlockHeight()
    now,            \* ctx.BlockHeader().Time
    phase,          \* "begin": before BeginBlock; "evidence"; "deliver"
    validator,      \* stake side: [status, jailed, unbondingMinTime]
    setHist,        \* setHist[h]: validators signing block h (known up to height+1)
    signInfo,       \* ValidatorSigningInfo per validator
    missedBits,     \* the missed-block bit array per validator
    slashLog,       \* calls of Slash: [val, kind, distHeight]
    evidenceSeen,   \* evidence already delivered: <<kind, val, infractionHeight>>
    sigSinceReset,  \* history since the last window reset: [n: signatures, last: misses of the last window]
    sigSinceRejoin  \* history: misses of the last window since the validator joined the LastCommit

vars == <<height, now, phase, validator, setHist, signInfo, missedBits,
          slashLog, evidenceSeen, sigSinceReset, sigSinceRejoin>>

Bonded == "Bonded"
Unbonding == "Unbonding"
Unbonded == "Unbonded"

Index == 0..(SignedBlocksWindow - 1)
MaxMissed == SignedBlocksWindow - MinSignedPerWindow

(* Validators whose votes for block height-1 arrive in this LastCommit.   *)
LastCommitSet == IF height = 1 THEN {} ELSE setHist[height - 1]

(* A history keeps the misses of the last SignedBlocksWindow signatures. *)
KeepWindow(hist, missed) ==
    LET h == Append(hist, missed)
    IN  IF Len(h) > SignedBlocksWindow THEN Tail(h) ELSE h

MissesInWindow(hist) == Cardinality({j \in DOMAIN hist : hist[j]})

-----------------------------------------------------------------------------
(* handleValidatorSignature for one validator: bit and counter updated at *)
(* IndexOffset % window, then downtime checked against the updated       *)
(* counter; a downtime slash jails and resets counter, offset and array.  *)

SignatureIndex(si) == si.indexOffset % SignedBlocksWindow

(* Fault variant: the two counter updates swapped.                       *)
MissedCounterSwapped(si, bits, missed) ==
    LET previous == bits[SignatureIndex(si)]
    IN  CASE ~previous /\ missed -> si.missedCounter - 1
          [] previous /\ ~missed -> si.missedCounter + 1
          [] OTHER               -> si.missedCounter

MissedCounterAfter(si, bits, missed) ==
    LET previous == bits[SignatureIndex(si)]
    IN  CASE ~previous /\ missed -> si.missedCounter + 1
          [] previous /\ ~missed -> si.missedCounter - 1
          [] OTHER               -> si.missedCounter

IsDowntime(v, si, bits, missed) ==
    /\ height > si.startHeight + SignedBlocksWindow
    /\ MissedCounterAfter(si, bits, missed) > MaxMissed
    /\ ~validator[v].jailed

SigningInfoAfter(v, si, bits, missed) ==
    IF IsDowntime(v, si, bits, missed)
    THEN [si EXCEPT !.jailedUntil = now + DowntimeJailDuration,
                    !.missedCounter = 0, !.indexOffset = 0]
    ELSE [si EXCEPT !.indexOffset = @ + 1,
                    !.missedCounter = MissedCounterAfter(si, bits, missed)]

(* Fault variant: the downtime reset leaves the bit array as it was.      *)
BitsAfterNoClear(v, si, bits, missed) ==
    [bits EXCEPT ![SignatureIndex(si)] = missed]

BitsAfter(v, si, bits, missed) ==
    IF IsDowntime(v, si, bits, missed)
    THEN [i \in Index |-> FALSE]
    ELSE [bits EXCEPT ![SignatureIndex(si)] = missed]

(* BeginBlock: one handleValidatorSignature per validator of the          *)
(* LastCommit; the validators that signed are the input. The calls touch  *)
(* disjoint state, so their order inside the block does not matter.       *)
BeginBlock ==
    /\ phase = "begin"
    /\ \E signed \in SUBSET LastCommitSet :
        LET Missed(v) == v \notin signed
            Down(v) == v \in LastCommitSet /\
                       IsDowntime(v, signInfo[v], missedBits[v], Missed(v))
            down == {v \in Validators : Down(v)}
        IN
        /\ signInfo' = [v \in Validators |->
              IF v \in LastCommitSet
              THEN SigningInfoAfter(v, signInfo[v], missedBits[v], Missed(v))
              ELSE signInfo[v]]
        /\ missedBits' = [v \in Validators |->
              IF v \in LastCommitSet
              THEN BitsAfter(v, signInfo[v], missedBits[v], Missed(v))
              ELSE missedBits[v]]
        /\ validator' = [v \in Validators |->
              IF v \in down THEN [validator[v] EXCEPT !.jailed = TRUE]
              ELSE validator[v]]
        /\ slashLog' = slashLog \cup
              {[val |-> v, kind |-> "downtime",
                distHeight |-> height - ValidatorUpdateDelay - 1] : v \in down}
        /\ sigSinceReset' = [v \in Validators |->
              IF v \in down THEN [n |-> 0, last |-> <<>>]
              ELSE IF v \in LastCommitSet
              THEN [n |-> sigSinceReset[v].n + 1,
                    last |-> KeepWindow(sigSinceReset[v].last, Missed(v))]
              ELSE sigSinceReset[v]]
        /\ sigSinceRejoin' = [v \in Validators |->
              IF v \in LastCommitSet THEN KeepWindow(sigSinceRejoin[v], Missed(v))
              ELSE sigSinceRejoin[v]]
    /\ phase' = "evidence"
    /\ UNCHANGED <<height, now, setHist, evidenceSeen>>

-----------------------------------------------------------------------------
(* Evidence, handled in BeginBlock after the signatures. Tendermint       *)
(* delivers each piece of evidence once, for a block the validator signed. *)

EvidenceFor(kind, v, ih) ==
    /\ phase = "evidence"
    /\ ih \in EvidenceHeights /\ ih < height
    /\ v \in setHist[ih]
    /\ <<kind, v, ih>> \notin evidenceSeen

(* Slash, jail unless jailed, and set JailedUntil = now + duration.       *)
(* Fault variant: the "jail unless already jailed" test inverted.         *)
PunishJailInverted(v, kind, distHeight, duration) ==
    /\ slashLog' = slashLog \cup {[val |-> v, kind |-> kind, distHeight |-> distHeight]}
    /\ validator' = IF validator[v].jailed
                    THEN [validator EXCEPT ![v].jailed = TRUE] ELSE validator
    /\ signInfo' = [signInfo EXCEPT ![v].jailedUntil = now + duration]

Punish(v, kind, distHeight, duration) ==
    /\ slashLog' = slashLog \cup {[val |-> v, kind |-> kind, distHeight |-> distHeight]}
    /\ validator' = [validator EXCEPT ![v].jailed = TRUE]
    /\ signInfo' = [signInfo EXCEPT ![v].jailedUntil = now + duration]

handleDoubleSign(v, ih) ==
    /\ EvidenceFor("doubleSign", v, ih)
    /\ evidenceSeen' = evidenceSeen \cup {<<"doubleSign", v, ih>>}
    /\ IF validator[v].status = Unbonded \/ height - ih > MaxEvidenceAge
       THEN UNCHANGED <<slashLog, validator, signInfo>>
       ELSE Punish(v, "doubleSign", ih - ValidatorUpdateDelay, DoubleSignJailDuration)
    /\ UNCHANGED <<height, now, phase, setHist, missedBits, sigSinceReset,
                   sigSinceRejoin>>

handleProposerCensorship(v, ih) ==
    /\ EvidenceFor("censorship", v, ih)
    /\ evidenceSeen' = evidenceSeen \cup {<<"censorship", v, ih>>}
    /\ IF validator[v].status = Unbonded
       THEN UNCHANGED <<slashLog, validator, signInfo>>
       ELSE Punish(v, "censorship", ih - ValidatorUpdateDelay, CensorshipJailDuration)
    /\ UNCHANGED <<height, now, phase, setHist, missedBits, sigSinceReset,
                   sigSinceRejoin>>

-----------------------------------------------------------------------------
(* handleMsgUnjail (not in this tree; spec.md): fails unless the          *)
(* validator is jailed and its JailedUntil has passed.                     *)
Unjail(v) ==
    /\ phase \in {"evidence", "deliver"}
    /\ validator[v].jailed
    /\ signInfo[v].jailedUntil <= now
    /\ validator' = [validator EXCEPT ![v].jailed = FALSE]
    /\ phase' = "deliver"
    /\ UNCHANGED <<height, now, setHist, signInfo, missedBits, slashLog,
                   evidenceSeen, sigSinceReset, sigSinceRejoin>>

(* Stake EndBlocker (not in this tree; spec.md): every unjailed validator *)
(* is bonded, a jailed Bonded one starts unbonding, a matured Unbonding   *)
(* one becomes Unbonded. The new set signs from block height+2 on.         *)
EndBlock ==
    /\ phase # "begin"
    /\ height < MaxHeight
    /\ LET newSet == {v \in Validators : ~validator[v].jailed}
           After(val, v) ==
             IF v \in newSet THEN [val EXCEPT !.status = Bonded]
             ELSE IF val.status = Bonded
             THEN [val EXCEPT !.status = Unbonding,
                              !.unbondingMinTime = now + UnbondingTime]
             ELSE val
           Matured(val) ==
             IF val.status = Unbonding /\ val.unbondingMinTime <= now
             THEN [val EXCEPT !.status = Unbonded] ELSE val
       IN  /\ validator' = [v \in Validators |-> Matured(After(validator[v], v))]
           /\ setHist' = Append(setHist, newSet)
           /\ sigSinceRejoin' = [v \in Validators |->
                 IF v \in setHist[height] /\ v \notin LastCommitSet
                 THEN <<>> ELSE sigSinceRejoin[v]]
    /\ height' = height + 1
    /\ \E step \in TimeSteps : now' = now + step
    /\ phase' = "begin"
    /\ UNCHANGED <<signInfo, missedBits, slashLog, evidenceSeen, sigSinceReset>>

(* At the height bound no further block starts.                           *)
Halted ==
    /\ height = MaxHeight
    /\ phase # "begin"
    /\ UNCHANGED vars

Init ==
    /\ height = 1
    /\ now = 0
    /\ phase = "begin"
    /\ validator = [v \in Validators |->
          [status |-> Bonded, jailed |-> FALSE, unbondingMinTime |-> 0]]
    /\ setHist = <<Validators, Validators>>
    /\ signInfo = [v \in Validators |->
          [startHeight |-> 0, indexOffset |-> 0, jailedUntil |-> 0,
           missedCounter |-> 0]]
    /\ missedBits = [v \in Validators |-> [i \in Index |-> FALSE]]
    /\ slashLog = {}
    /\ evidenceSeen = {}
    /\ sigSinceReset = [v \in Validators |-> [n |-> 0, last |-> <<>>]]
    /\ sigSinceRejoin = [v \in Validators |-> <<>>]

Next ==
    \/ BeginBlock
    \/ \E v \in Validators, ih \in EvidenceHeights :
          handleDoubleSign(v, ih) \/ handleProposerCensorship(v, ih)
    \/ \E v \in Validators : Unjail(v)
    \/ EndBlock
    \/ Halted

Spec == Init /\ [][Next]_vars

-----------------------------------------------------------------------------
(***************************************************************************)
(* Properties                                                              *)
(***************************************************************************)

TypeOK ==
    /\ height \in 1..MaxHeight /\ now \in Nat
    /\ phase \in {"begin", "evidence", "deliver"}
    /\ validator \in [Validators ->
          [status: {Bonded, Unbonding, Unbonded}, jailed: BOOLEAN,
           unbondingMinTime: Nat]]
    /\ setHist \in Seq(SUBSET Validators) /\ Len(setHist) = height + 1
    /\ signInfo \in [Validators ->
          [startHeight: Nat, indexOffset: Nat, jailedUntil: Nat,
           missedCounter: Nat]]
    /\ missedBits \in [Validators -> [Index -> BOOLEAN]]
    /\ sigSinceReset \in [Validators -> [n: Nat, last: Seq(BOOLEAN)]]
    /\ sigSinceRejoin \in [Validators -> Seq(BOOLEAN)]

(* The O(1) bookkeeping of handleValidatorSignature is the sliding window *)
(* it stands for: IndexOffset counts the signatures since the last reset, *)
(* bit i of the array holds the latest of them at an offset = i mod the   *)
(* window, and MissedBlocksCounter is the number of misses among the last *)
(* SignedBlocksWindow of them, across downtime resets of offset, counter  *)
(* and array.                                                              *)
WindowMatchesHistory ==
    \A v \in Validators :
        LET h == sigSinceReset[v]
            \* the k-th entry of h.last is signature number n - Len(last) + k
            Offset(k) == (h.n - Len(h.last) + k - 1) % SignedBlocksWindow
        IN  /\ signInfo[v].indexOffset = h.n
            /\ signInfo[v].missedCounter = MissesInWindow(h.last)
            /\ \A i \in Index :
                  missedBits[v][i] = \E k \in DOMAIN h.last : Offset(k) = i /\ h.last[k]

(* A validator that is not jailed has served its cool-down: every jail   *)
(* (downtime, double sign, censorship) sets JailedUntil in the future,    *)
(* and unjailing requires it to have passed.                               *)
JailedUntilRespected ==
    \A v \in Validators : ~validator[v].jailed => signInfo[v].jailedUntil <= now

(* spec.md (slashing): the downtime reset happens "so it is not           *)
(* immediately re-punished upon rebonding": a validator jailed for        *)
(* downtime has missed more than window - minSigned of the blocks it was   *)
(* expected to sign since it last joined the signing set.                  *)
NotRepunishedOnRebond ==
    [][\A v \in Validators :
         [val |-> v, kind |-> "downtime",
          distHeight |-> height - ValidatorUpdateDelay - 1] \in slashLog' \ slashLog
           => MissesInWindow(sigSinceRejoin'[v]) > MaxMissed]_vars

(* spec.md (slashing): double signing jails "with a (typically permanent *)
(* or long) cool-down"; no later evidence shortens a jail already set.     *)
JailCoolDownNeverShortened ==
    [][\A v \in Validators : signInfo'[v].jailedUntil >= signInfo[v].jailedUntil]_vars


(* spec.md (slashing): handleDoubleSign is "ignored if evidence age       *)
(* exceeds a maximum; otherwise" it slashes and jails, and Unbonding      *)
(* stake is "still slashable". Evidence for a block the validator signed, *)
(* delivered within MaxEvidenceAge, leads to a double-sign slash.         *)
DoubleSignWithinAgeSlashed ==
    [][\A v \in Validators, ih \in EvidenceHeights :
         /\ <<"doubleSign", v, ih>> \in evidenceSeen' \ evidenceSeen
         /\ height - ih <= MaxEvidenceAge
         => [val |-> v, kind |-> "doubleSign",
             distHeight |-> ih - ValidatorUpdateDelay] \in slashLog']_vars

=============================================================================
