---- MODULE CheckpointProofs ----
(****************************************************************************)
(* Proofs about CheckpointHandover: there is never a second writer          *)
(* (OneWriter), for every number of hosts, generations, handbacks, faults,  *)
(* edits and delayed requests, as long as the controller leaves a lifecycle *)
(* alone once it has begun a newer one.                                     *)
(*                                                                          *)
(* The server's word on who owns the session and the hosts' own files say   *)
(* the same at no single moment: a command may be killed between any two    *)
(* steps. The invariant relates them: a seal a destination may have shown   *)
(* is one whose lifecycle file says "sealed" or "resuming", or its          *)
(* ownership has ended for good (SealInv); such a file without the proof of *)
(* the resume keeps the source down (LifeInv); and a destination that may   *)
(* be started still owns, since only its own handback, run with the daemon  *)
(* down and never given up after the commit, ends that (DestInv).           *)
(****************************************************************************)
EXTENDS CheckpointHandover, TLAPS

StateType == [files : SUBSET Int, cursor : Int]
SealType ==
    [issued : BOOLEAN, token : Int, at : StateType, expired : BOOLEAN,
     consumer : Dests \union {NoOne}, prepared : Handbacks \union {NoOne},
     back : StateType, released : BOOLEAN, resumed : {"no", "source", "admin"}]
HostType ==
    [daemon : {"up", "stopping", "down"}, synced : BOOLEAN,
     local : SUBSET Int, base : SUBSET Int, cursor : Int]
Ops == {"none", "seal", "resume", "verify", "handback"}
Pcs ==
    {"idle", "stop", "drain", "issue", "final", "recover", "unsaved", "restart", "burn",
     "ensure", "proof", "again", "check", "diverged", "failed", "prepare", "commit", "finish"}
LifeStatus ==
    {"none", "preparing", "stopped", "sealed", "resuming", "ready",
     "preseal-failed-source-ready", "recovery-failed", "ownership-conflict"}
BackStatus ==
    {"none", "preparing", "handing-back", "handback-unknown", "released",
     "failed-destination-ready", "recovery-failed"}
LifeType == [status : LifeStatus, token : Int, proof : BOOLEAN, at : StateType]
BackType == [status : BackStatus, gen : Int, host : Dests \union {NoOne}]
CmdType == [op : Ops, id : Int, pc : Pcs, scan : SUBSET Int, token : Int]
UsedType == [faults : Int, edits : Int, strays : Int, events : Int]
HostsType == [Hosts -> HostType]
CmdsType == [Hosts -> CmdType]
LivesType == [Gens -> LifeType]
BacksType == [Handbacks -> BackType]

TypeInv ==
    /\ cfg \in Configs /\ cloud \in StateType /\ used \in UsedType
    /\ seals \in [Gens -> SealType] /\ last \in Int
    /\ late \subseteq [gen : Gens, digest : SUBSET Int]
    /\ hosts \in HostsType /\ cmd \in CmdsType
    /\ life \in LivesType /\ backs \in BacksType
    /\ told \in [Gens -> Int] /\ receipt \in [Gens -> Dests \union {NoOne}]

Owned(d, g) ==
    seals[g].consumer = d /\ ~seals[g].released /\ seals[g].resumed = "no"

(* Ownership of this generation has ended, and none will be had again.        *)
Gone(g) == seals[g].resumed # "no" \/ (~seals[g].issued /\ g <= last)

Sealed(g) == life[g].status \in {"sealed", "resuming"}
Opened(g) == Sealed(g) \/ Gone(g)

SealInv ==
    \A g \in Gens :
       /\ seals[g].issued => g <= last
       /\ seals[g].consumer # NoOne => seals[g].issued /\ Opened(g)
       /\ seals[g].resumed # "no" => seals[g].issued

Active(g) == life[g].status \in {"preparing", "stopped", "sealed", "resuming"}
ResumesFrom == {"preparing", "stopped", "preseal-failed-source-ready"}

NewestOK(g) == Active(g) => \A n \in Gens : life[n].status # "none" => n <= g

LifeOK(g) ==
    /\ Sealed(g) => g <= last
    /\ Sealed(g) /\ ~life[g].proof =>
          /\ hosts[Source].daemon = "down"
          /\ \/ cmd[Source] = Idle
             \/ cmd[Source].op = "resume" /\ cmd[Source].pc = "burn" /\ cmd[Source].id = g
    /\ life[g].proof => Gone(g) /\ life[g].status \in {"resuming", "ready"}
    /\ told[g] # 0 => Opened(g)

LifeInv == \A g \in Gens : NewestOK(g) /\ LifeOK(g)

SourceCmd ==
    LET c == cmd[Source]
    IN /\ c.op \in {"none", "seal", "resume"}
       /\ c.op # "none" => c.id \in Gens
       /\ c.op = "seal" =>
             /\ life[c.id].status \in {"preparing", "stopped"}
             /\ c.pc \in {"drain", "issue", "final"} => hosts[Source].daemon = "down"
             /\ c.pc = "final" => c.id <= last
       /\ c.op = "resume" =>
             \/ c.pc = "restart" /\ life[c.id].status \in ResumesFrom
             \/ c.pc = "burn" /\ life[c.id].status = "resuming" /\ ~life[c.id].proof
             \/ /\ c.pc \in {"ensure", "proof"}
                /\ life[c.id].status = "resuming" /\ life[c.id].proof

Pending(h, d, g) ==
    backs[h].host = d /\ backs[h].gen = g /\ backs[h].status \notin GivenUp

ReceiptInv ==
    \A d \in Dests, g \in Gens :
       (receipt[g] = d \/ seals[g].consumer = d) /\ ~Owned(d, g) =>
          \E h \in Handbacks : Pending(h, d, g)

BackInv ==
    \A h \in Handbacks :
       /\ backs[h].status = "none" => backs[h].host = NoOne
       /\ backs[h].status # "none" => backs[h].host \in Dests /\ backs[h].gen \in Gens
       /\ backs[h].status = "preparing" => Owned(backs[h].host, backs[h].gen)
       /\ \A k \in Handbacks \ {h} :
             /\ backs[h].host # NoOne /\ backs[k].host = backs[h].host
             /\ backs[k].gen = backs[h].gen
             => backs[h].status \in GivenUp \/ backs[k].status \in GivenUp

DestCmd(d) ==
    LET c == cmd[d]
    IN /\ c.op \in {"none", "verify", "handback"}
       /\ c.op = "verify" => c.id \in Gens /\ Owned(d, c.id)
       /\ c.op = "handback" =>
             /\ c.id \in Handbacks /\ backs[c.id].host = d
             /\ backs[c.id].status \in {"preparing", "handing-back"}
             /\ \/ c.pc \in {"stop", "recover", "unsaved"} /\ Owned(d, backs[c.id].gen)
                \/ /\ c.pc \in {"drain", "prepare", "commit", "finish"}
                   /\ hosts[d].daemon = "down" /\ backs[c.id].status = "handing-back"

DestInv ==
    \A d \in Dests :
       /\ DestCmd(d)
       /\ hosts[d].daemon # "down" => \E g \in Gens : Owned(d, g)

Inv ==
    /\ TypeInv /\ SealInv /\ LifeInv /\ SourceCmd
    /\ ReceiptInv /\ BackInv /\ DestInv
-----------------------------------------------------------------------------
(* What the seal's operations do to a record.                                 *)

(* What no operation on a seal but a handback may do: take ownership away     *)
(* (from a consumer that has it), or give it again once it has ended.         *)
Kept(old, new) ==
    /\ new \in SealType
    /\ old.issued => new.issued
    /\ old.resumed # "no" => new.resumed # "no"
    /\ old.consumer # NoOne => new.consumer = old.consumer
    /\ old.consumer # NoOne /\ ~old.released /\ old.resumed = "no" =>
          ~new.released /\ new.resumed = "no"

(* IssueCheckpointSeal: a generation that was sealed is not sealed again.     *)
LEMMA IssueLemma ==
    ASSUME NEW s \in SealType, NEW g \in Int, NEW l \in Int,
           NEW digest \in SUBSET Int, NEW state \in StateType,
           s.issued => g <= l,
           s.consumer # NoOne => s.issued,
           s.resumed # "no" => s.issued
    PROVE  LET out == issueCheckpointSeal(s, g, l, digest, state)
           IN /\ Kept(s, out.seal)
              /\ out.seal.consumer = s.consumer
              /\ out.seal.resumed = s.resumed
              /\ out.seal.issued => s.issued \/ out.code = "ok"
              /\ out.code = "ok" => s.issued \/ g > l
              /\ ~s.issued /\ g <= l => out.seal = s
<1>1. CASE s.issued /\ s.at.files = digest
  BY <1>1 DEF issueCheckpointSeal, issueReplayed, Refused, Done, Kept, Status,
              SealType, StateType
<1>2. CASE ~(s.issued /\ s.at.files = digest) /\ g > l /\ state.files = digest
  <2> DEFINE new == [NoSeal EXCEPT !.issued = TRUE, !.token = 1, !.at = state]
  <2>1. /\ new \in SealType
        /\ new.issued /\ new.consumer = NoOne /\ new.resumed = "no"
    <3>1. NoSeal \in SealType /\ NoSeal.consumer = NoOne /\ NoSeal.resumed = "no"
      BY DEF NoSeal, State, SealType, StateType
    <3>2. PICK n : n = NoSeal
      OBVIOUS
    <3>3. PICK m : m = [n EXCEPT !.issued = TRUE]
      OBVIOUS
    <3>4. PICK k : k = [m EXCEPT !.token = 1]
      OBVIOUS
    <3>5. m \in SealType /\ m.issued /\ m.consumer = NoOne /\ m.resumed = "no"
      BY <3>1, <3>2, <3>3 DEF SealType
    <3>6. k \in SealType /\ k.issued /\ k.consumer = NoOne /\ k.resumed = "no"
      BY <3>4, <3>5 DEF SealType
    <3>7. new = [k EXCEPT !.at = state]
      BY <3>2, <3>3, <3>4
    <3> HIDE DEF new
    <3>8. QED
      BY <3>6, <3>7 DEF SealType
  <2>2. issueCheckpointSeal(s, g, l, digest, state) = Done(new)
    BY <1>2 DEF issueCheckpointSeal
  <2>3. ~s.issued /\ s.consumer = NoOne /\ s.resumed = "no"
    BY <1>2
  <2> HIDE DEF new
  <2>4. QED
    BY <1>2, <2>1, <2>2, <2>3 DEF Done, Kept
<1>3. CASE ~(s.issued /\ s.at.files = digest) /\ ~(g > l /\ state.files = digest)
  BY <1>3 DEF issueCheckpointSeal, Refused, Kept, SealType
<1>4. QED
  BY <1>1, <1>2, <1>3

(* ConsumeCheckpointSeal: the seal becomes its destination's, or stays as it  *)
(* is.                                                                        *)
LEMMA ConsumeLemma ==
    ASSUME NEW s \in SealType, NEW g, NEW token, NEW d \in Dests, NEW b, NEW state
    PROVE  LET out == consumeCheckpointSeal(s, g, token, d, b, state)
           IN /\ Kept(s, out.seal)
              /\ out.seal.issued = s.issued /\ out.seal.resumed = s.resumed
              /\ out.code = "ok" =>
                    /\ out.seal.issued
                    /\ out.seal.consumer = d
                    /\ ~out.seal.released /\ out.seal.resumed = "no"
              /\ out.code # "ok" => out.seal = s
  BY CheckpointAssumption
     DEF consumeCheckpointSeal, Refused, Done, Kept, Status, SealType

(* ResumeCheckpointSeal: no ownership is taken from a consumer that has it,   *)
(* and a resume that succeeds ends it for good.                               *)
LEMMA ResumeLemma ==
    ASSUME NEW s \in SealType, NEW token, NEW state \in StateType
    PROVE  LET out == resumeCheckpointSeal(s, token, state)
           IN /\ Kept(s, out.seal)
              /\ out.seal.issued = s.issued /\ out.seal.consumer = s.consumer
              /\ out.seal.resumed # s.resumed => s.issued
              /\ out.code \in {"ok", "resume_conflict"} => out.seal.resumed # "no"
              /\ out.code = "ok" => s.issued
  BY ZenonT(40) DEF resumeCheckpointSeal, Refused, Done, Kept, Status, SealType, StateType

(* ReconcileCheckpointSealSource: likewise.                                   *)
LEMMA ReconcileLemma ==
    ASSUME NEW s \in SealType, NEW expected
    PROVE  LET out == reconcileCheckpointSealSource(s, expected)
           IN /\ Kept(s, out.seal)
              /\ out.seal.issued = s.issued /\ out.seal.consumer = s.consumer
              /\ out.seal.resumed # s.resumed => s.issued
  BY DEF reconcileCheckpointSealSource, Refused, Done, Kept, Status, SealType

(* HandbackCheckpointSeal: it touches the seal of its own consumer alone, and *)
(* whoever is refused for divergence is still the owner.                      *)
LEMMA HandbackLemma ==
    ASSUME NEW s \in SealType, NEW d \in Dests, NEW phase, NEW h \in Handbacks,
           NEW digest \in SUBSET Int, NEW state \in StateType
    PROVE  LET out == handbackCheckpointSeal(s, d, phase, h, digest, state)
           IN /\ out.seal \in SealType
              /\ out.seal.issued = s.issued /\ out.seal.consumer = s.consumer
              /\ out.seal.resumed = s.resumed
              /\ s.consumer # d => out.seal = s
              /\ out.code = "diverged" =>
                    out.seal = s /\ s.consumer = d /\ ~s.released /\ s.resumed = "no"
  BY ZenonT(40) DEF handbackCheckpointSeal, Refused, Done, SealType, StateType
-----------------------------------------------------------------------------
(* What the parts of an action do to the state.                               *)
OthersHosts(h) == \A k \in Hosts \ {h} : hosts'[k] = hosts[k]
OthersCmds(h) == \A k \in Hosts \ {h} : cmd'[k] = cmd[k]

(* A budget stays a number when some of it is spent.                          *)
LEMMA SpendLemma ==
    ASSUME used \in UsedType, NEW what \in {"faults", "edits", "strays", "events"}, Spend(what)
    PROVE  used' \in UsedType
<1>1. used' = [used EXCEPT ![what] = @ + 1]
  BY DEF Spend
<1>2. used.faults \in Int /\ used.edits \in Int /\ used.strays \in Int /\ used.events \in Int
  BY DEF UsedType
<1>3. CASE what = "faults" BY <1>1, <1>2, <1>3 DEF UsedType
<1>4. CASE what = "edits" BY <1>1, <1>2, <1>4 DEF UsedType
<1>5. CASE what = "strays" BY <1>1, <1>2, <1>5 DEF UsedType
<1>6. CASE what = "events" BY <1>1, <1>2, <1>6 DEF UsedType
<1>7. QED BY <1>3, <1>4, <1>5, <1>6

(* stopCheckpointMount: the daemon of one host is down.                       *)
LEMMA StoppedLemma ==
    ASSUME hosts \in HostsType, NEW h \in Hosts, hosts' = Stopped(h)
    PROVE  hosts' \in HostsType /\ hosts'[h].daemon = "down" /\ OthersHosts(h)
<1>1. PICK m : m = [hosts[h] EXCEPT !.daemon = "down"]
  OBVIOUS
<1>2. PICK n : n = [m EXCEPT !.synced = FALSE]
  OBVIOUS
<1>3. m \in HostType /\ m.daemon = "down"
  BY <1>1 DEF HostsType, HostType
<1>4. n \in HostType /\ n.daemon = "down"
  BY <1>2, <1>3 DEF HostType
<1>5. hosts' = [hosts EXCEPT ![h] = n]
  BY <1>1, <1>2 DEF Stopped, HostsType
<1>6. QED
  BY <1>4, <1>5 DEF HostsType, OthersHosts

(* ensureCheckpointSourceReady: the daemon of one host is started.            *)
LEMMA StartedLemma ==
    ASSUME hosts \in HostsType, NEW h \in Hosts, hosts' = Started(h)
    PROVE  hosts' \in HostsType /\ OthersHosts(h)
<1>1. PICK m : m = [hosts[h] EXCEPT !.daemon = "up"]
  OBVIOUS
<1>2. PICK n : n = [m EXCEPT !.synced = FALSE]
  OBVIOUS
<1>3. m \in HostType
  BY <1>1 DEF HostsType, HostType
<1>4. n \in HostType
  BY <1>2, <1>3 DEF HostType
<1>5. hosts' = [hosts EXCEPT ![h] = n]
  BY <1>1, <1>2 DEF Started, HostsType
<1>6. QED
  BY <1>4, <1>5 DEF HostsType, OthersHosts

(* A stop that times out leaves a daemon that is stopping.                    *)
LEMMA StoppingLemma ==
    ASSUME hosts \in HostsType, NEW h \in Hosts,
           hosts' = [hosts EXCEPT ![h].daemon = "stopping"]
    PROVE  hosts' \in HostsType /\ OthersHosts(h)
<1>1. PICK m : m = [hosts[h] EXCEPT !.daemon = "stopping"]
  OBVIOUS
<1>2. m \in HostType
  BY <1>1 DEF HostsType, HostType
<1>3. hosts' = [hosts EXCEPT ![h] = m]
  BY <1>1 DEF HostsType
<1>4. QED
  BY <1>2, <1>3 DEF HostsType, OthersHosts

(* pushLocal: what is pushed is in the workspace, no daemon starts or stops.  *)
LEMMA DrainLemma ==
    ASSUME hosts \in HostsType, cloud \in StateType, NEW h \in Hosts, Drain(h)
    PROVE  /\ hosts' \in HostsType /\ cloud' \in StateType /\ OthersHosts(h)
           /\ hosts'[h].daemon = hosts[h].daemon
<1>1. PICK m : m = [hosts[h] EXCEPT !.base = hosts[h].local]
  OBVIOUS
<1>2. m \in HostType /\ m.daemon = hosts[h].daemon
  BY <1>1 DEF HostsType, HostType
<1>3. hosts' = [hosts EXCEPT ![h] = m]
  BY <1>1 DEF Drain, HostsType
<1>4. hosts[h].local \in SUBSET Int
  BY DEF HostsType, HostType
<1>5. cloud' \in StateType
  BY <1>4 DEF Drain, State, StateType
<1>6. QED
  BY <1>2, <1>3, <1>5 DEF HostsType, OthersHosts

(* A command goes on to its next step.                                        *)
LEMMA GotoLemma ==
    ASSUME cmd \in CmdsType, NEW h \in Hosts, NEW pc \in Pcs, Goto(h, pc)
    PROVE  /\ cmd' \in CmdsType /\ OthersCmds(h)
           /\ cmd'[h].op = cmd[h].op /\ cmd'[h].id = cmd[h].id /\ cmd'[h].pc = pc
<1>1. PICK c : c = [cmd[h] EXCEPT !.pc = pc]
  OBVIOUS
<1>2. c \in CmdType /\ c.op = cmd[h].op /\ c.id = cmd[h].id /\ c.pc = pc
  BY <1>1 DEF CmdsType, CmdType
<1>3. cmd' = [cmd EXCEPT ![h] = c]
  BY <1>1 DEF Goto, CmdsType
<1>4. QED
  BY <1>2, <1>3 DEF CmdsType, OthersCmds

(* ... with what it has scanned.                                              *)
LEMMA ScanLemma ==
    ASSUME cmd \in CmdsType, NEW h \in Hosts, NEW pc \in Pcs, NEW scan \in SUBSET Int,
           cmd' = [cmd EXCEPT ![h].pc = pc, ![h].scan = scan]
    PROVE  /\ cmd' \in CmdsType /\ OthersCmds(h)
           /\ cmd'[h].op = cmd[h].op /\ cmd'[h].id = cmd[h].id /\ cmd'[h].pc = pc
<1>1. PICK c : c = [cmd[h] EXCEPT !.pc = pc]
  OBVIOUS
<1>2. PICK k : k = [c EXCEPT !.scan = scan]
  OBVIOUS
<1>3. c \in CmdType /\ c.op = cmd[h].op /\ c.id = cmd[h].id /\ c.pc = pc
  BY <1>1 DEF CmdsType, CmdType
<1>4. k \in CmdType /\ k.op = cmd[h].op /\ k.id = cmd[h].id /\ k.pc = pc
  BY <1>2, <1>3 DEF CmdType
<1>5. cmd' = [cmd EXCEPT ![h] = k]
  BY <1>1, <1>2 DEF CmdsType
<1>6. QED
  BY <1>4, <1>5 DEF CmdsType, OthersCmds

(* ... with the token it was given.                                           *)
LEMMA TokenLemma ==
    ASSUME cmd \in CmdsType, NEW h \in Hosts, NEW pc \in Pcs, NEW token \in Int,
           cmd' = [cmd EXCEPT ![h].pc = pc, ![h].token = token]
    PROVE  /\ cmd' \in CmdsType /\ OthersCmds(h)
           /\ cmd'[h].op = cmd[h].op /\ cmd'[h].id = cmd[h].id /\ cmd'[h].pc = pc
<1>1. PICK c : c = [cmd[h] EXCEPT !.pc = pc]
  OBVIOUS
<1>2. PICK k : k = [c EXCEPT !.token = token]
  OBVIOUS
<1>3. c \in CmdType /\ c.op = cmd[h].op /\ c.id = cmd[h].id /\ c.pc = pc
  BY <1>1 DEF CmdsType, CmdType
<1>4. k \in CmdType /\ k.op = cmd[h].op /\ k.id = cmd[h].id /\ k.pc = pc
  BY <1>2, <1>3 DEF CmdType
<1>5. cmd' = [cmd EXCEPT ![h] = k]
  BY <1>1, <1>2 DEF CmdsType
<1>6. QED
  BY <1>4, <1>5 DEF CmdsType, OthersCmds

(* A command begins.                                                          *)
LEMMA RunLemma ==
    ASSUME cmd \in CmdsType, NEW h \in Hosts, NEW op \in Ops, NEW id \in Int,
           NEW pc \in Pcs, cmd' = [cmd EXCEPT ![h] = Run(op, id, pc)]
    PROVE  /\ cmd' \in CmdsType /\ OthersCmds(h)
           /\ cmd'[h].op = op /\ cmd'[h].id = id /\ cmd'[h].pc = pc
<1>1. PICK r : r = Run(op, id, pc)
  OBVIOUS
<1>2. r = [op |-> op, id |-> id, pc |-> pc, scan |-> {}, token |-> 0]
  BY <1>1 DEF Run, Idle
<1>3. r \in CmdType /\ r.op = op /\ r.id = id /\ r.pc = pc
  BY <1>2 DEF CmdType
<1>4. QED
  BY <1>1, <1>3 DEF CmdsType, OthersCmds

(* No command is running.                                                     *)
LEMMA IdleLemma == Idle \in CmdType /\ Idle.op = "none" /\ Idle.pc = "idle"
<1>1. PICK r : r = Idle
  OBVIOUS
<1>2. r = [op |-> "none", id |-> 0, pc |-> "idle", scan |-> {}, token |-> 0]
  BY <1>1 DEF Idle
<1>3. r \in CmdType /\ r.op = "none" /\ r.pc = "idle"
  BY <1>2 DEF CmdType, Ops, Pcs
<1>4. QED
  BY <1>1, <1>3

(* A command ends.                                                            *)
LEMMA ExitLemma ==
    ASSUME cmd \in CmdsType, NEW h \in Hosts, Exit(h)
    PROVE  /\ cmd' \in CmdsType /\ OthersCmds(h)
           /\ cmd'[h] = Idle /\ cmd'[h].op = "none"
<1>1. QED
  BY IdleLemma DEF Exit, CmdsType, OthersCmds

(* A lifecycle file is saved with a new status.                               *)
LEMMA SetLifeLemma ==
    ASSUME life \in LivesType, NEW g \in Gens, NEW status \in LifeStatus, SetLife(g, status)
    PROVE  /\ life' \in LivesType
           /\ \A n \in Gens \ {g} : life'[n] = life[n]
           /\ life'[g].status = status /\ life'[g].proof = life[g].proof
<1>1. PICK f : f = [life[g] EXCEPT !.status = status]
  OBVIOUS
<1>2. f \in LifeType /\ f.status = status /\ f.proof = life[g].proof
  BY <1>1 DEF LivesType, LifeType
<1>3. life' = [life EXCEPT ![g] = f]
  BY <1>1 DEF SetLife, LivesType
<1>4. QED
  BY <1>2, <1>3 DEF LivesType

(* A handback's file is saved with a new status.                              *)
LEMMA SetBackLemma ==
    ASSUME backs \in BacksType, NEW h \in Handbacks, NEW status \in BackStatus, SetBack(h, status)
    PROVE  /\ backs' \in BacksType
           /\ \A k \in Handbacks \ {h} : backs'[k] = backs[k]
           /\ backs'[h].status = status
           /\ backs'[h].host = backs[h].host /\ backs'[h].gen = backs[h].gen
<1>1. PICK f : f = [backs[h] EXCEPT !.status = status]
  OBVIOUS
<1>2. /\ f \in BackType /\ f.status = status
      /\ f.host = backs[h].host /\ f.gen = backs[h].gen
  BY <1>1 DEF BacksType, BackType
<1>3. backs' = [backs EXCEPT ![h] = f]
  BY <1>1 DEF SetBack, BacksType
<1>4. QED
  BY <1>2, <1>3 DEF BacksType
-----------------------------------------------------------------------------
(* Frames: what a step that stays away from a part leaves as it was.          *)

(* No destination loses its seal, none gets one but as its owner.             *)
Forward ==
    /\ last' >= last
    /\ \A g \in Gens : Gone(g) => Gone(g)'
    /\ \A d \in Dests, g \in Gens :
          /\ Owned(d, g) => Owned(d, g)'
          /\ seals'[g].consumer = d => seals[g].consumer = d \/ Owned(d, g)'

Quiet(h) ==
    /\ cmd'[h] = cmd[h] \/ cmd'[h] = Idle
    /\ hosts'[h].daemon # "down" => hosts[h].daemon # "down"

(* The seals stay as they are.                                                *)
LEMMA SealsFrame ==
    ASSUME TypeInv, UNCHANGED <<seals, last>>
    PROVE  Forward /\ (SealInv /\ (\A g \in Gens : Opened(g) => Opened(g)') => SealInv')
  BY DEF TypeInv, Forward, Gone, Owned, SealInv

(* The lifecycle files stay as they are, and no command of the source goes    *)
(* on.                                                                        *)
LEMMA LifeFrame ==
    ASSUME Inv, TypeInv', Quiet(Source), UNCHANGED <<life, told>>,
           last' >= last, \A g \in Gens : Gone(g) => Gone(g)'
    PROVE  LifeInv' /\ SourceCmd' /\ \A g \in Gens : Opened(g) => Opened(g)'
<1>1. \A g \in Gens : /\ Active(g) = Active(g)' /\ Sealed(g) = Sealed(g)'
                      /\ Opened(g) => Opened(g)'
  BY DEF Active, Sealed, Opened
<1>2. last \in Int /\ last' \in Int /\ last' >= last /\ \A g \in Gens : g \in Int
  BY CheckpointAssumption DEF Inv, TypeInv
<1>3. \A g \in Gens : NewestOK(g)'
  BY <1>1 DEF Inv, LifeInv, NewestOK
<1>4. ASSUME NEW g \in Gens PROVE LifeOK(g)'
  <2>1. LifeOK(g) /\ (Gone(g) => Gone(g)')
    BY DEF Inv, LifeInv
  <2>2. QED
    BY <1>1, <1>2, <2>1 DEF LifeOK, Quiet
<1>5. SourceCmd'
  BY <1>2, IdleLemma DEF Inv, SourceCmd, Quiet
<1>6. QED
  BY <1>1, <1>3, <1>4, <1>5 DEF LifeInv

(* The files of the handbacks, and what was told, stay as they are.           *)
LEMMA ReceiptFrame ==
    ASSUME Inv, Forward, UNCHANGED <<backs, receipt>>
    PROVE  ReceiptInv' /\ BackInv'
<1>1. ReceiptInv'
  BY DEF Inv, ReceiptInv, Forward, Pending
<1>2. BackInv'
  BY DEF Inv, BackInv, Forward
<1>3. QED
  BY <1>1, <1>2

(* A destination whose command does not go on, and whose handback's file      *)
(* stays as it is.                                                            *)
LEMMA DestFrame ==
    ASSUME Inv, NEW d \in Dests, Quiet(d), \A g \in Gens : Owned(d, g) => Owned(d, g)',
           cmd[d].op = "handback" => backs'[cmd[d].id] = backs[cmd[d].id]
    PROVE  DestCmd(d)' /\ (hosts'[d].daemon # "down" => \E g \in Gens : Owned(d, g)')
<1>1. DestCmd(d) /\ (hosts[d].daemon # "down" => \E g \in Gens : Owned(d, g))
  BY DEF Inv, DestInv
<1>2. hosts'[d].daemon # "down" => \E g \in Gens : Owned(d, g)'
  BY <1>1 DEF Quiet
<1>3. CASE cmd'[d] = Idle
  BY <1>2, <1>3, IdleLemma DEF DestCmd
<1>4. CASE cmd'[d] = cmd[d] /\ cmd[d].op = "verify"
  BY <1>1, <1>2, <1>4 DEF DestCmd
<1>5. CASE cmd'[d] = cmd[d] /\ cmd[d].op = "handback"
  <2>1. PICK g \in Gens : g = backs[cmd[d].id].gen
    BY <1>1, <1>5 DEF Inv, BackInv, DestCmd
  <2>2. Owned(d, g) => Owned(d, g)'
    BY <2>1
  <2>3. backs'[cmd'[d].id] = backs[cmd[d].id]
    BY <1>5
  <2>4. QED
    BY <1>1, <1>2, <1>5, <2>1, <2>2, <2>3 DEF DestCmd, Quiet
<1>6. CASE cmd'[d] = cmd[d] /\ cmd[d].op = "none"
  BY <1>2, <1>6 DEF DestCmd
<1>7. QED
  BY <1>1, <1>3, <1>4, <1>5, <1>6 DEF DestCmd, Quiet

(* A step of the source.                                                      *)
LEMMA SourceSide ==
    ASSUME Inv, Forward, UNCHANGED <<backs, receipt>>, \A d \in Dests : Quiet(d)
    PROVE  ReceiptInv' /\ BackInv' /\ DestInv'
  BY ReceiptFrame, DestFrame DEF DestInv, Forward

(* A step that leaves the files and the seals as they are.                    *)
LEMMA StillStep ==
    ASSUME Inv, TypeInv', \A h \in Hosts : Quiet(h),
           UNCHANGED <<seals, last, life, told, backs, receipt>>
    PROVE  Inv'
<1>1. Forward
  BY SealsFrame DEF Inv
<1>2. LifeInv' /\ SourceCmd' /\ \A g \in Gens : Opened(g) => Opened(g)'
  BY <1>1, LifeFrame DEF Hosts, Forward
<1>3. SealInv'
  BY <1>2, SealsFrame DEF Inv
<1>4. QED
  BY <1>1, <1>2, <1>3, SourceSide DEF Inv, Hosts
-----------------------------------------------------------------------------
(* The steps of hosts, agents and other writers.                              *)

(* syncOnce.                                                                  *)
LEMMA SyncStep == ASSUME Inv, NEW h \in Hosts, Sync(h) PROVE Inv'
<1> DEFINE new == cloud.files \union hosts[h].local
           tip == cloud.cursor + IF hosts[h].local \subseteq cloud.files THEN 0 ELSE 1
<1>1. new \in SUBSET Int /\ tip \in Int
  BY DEF Inv, TypeInv, StateType, HostsType, HostType
<1>2. /\ cloud' = State(new, tip)
      /\ hosts' = [hosts EXCEPT ![h] = [@ EXCEPT !.local = new, !.base = new,
                                                 !.cursor = tip, !.synced = TRUE]]
  BY DEF Sync
<1> HIDE DEF new, tip
<1>3. PICK m : m = [hosts[h] EXCEPT !.local = new]
  OBVIOUS
<1>4. PICK n : n = [m EXCEPT !.base = new]
  OBVIOUS
<1>5. PICK p : p = [n EXCEPT !.cursor = tip]
  OBVIOUS
<1>6. PICK q : q = [p EXCEPT !.synced = TRUE]
  OBVIOUS
<1>7. hosts \in HostsType
  BY DEF Inv, TypeInv
<1>8. m \in HostType /\ m.daemon = hosts[h].daemon
  BY <1>1, <1>3, <1>7 DEF HostsType, HostType
<1>9. n \in HostType /\ n.daemon = hosts[h].daemon
  BY <1>1, <1>4, <1>8 DEF HostType
<1>10. p \in HostType /\ p.daemon = hosts[h].daemon
  BY <1>1, <1>5, <1>9 DEF HostType
<1>11. q \in HostType /\ q.daemon = hosts[h].daemon
  BY <1>6, <1>10 DEF HostType
<1>12. hosts' = [hosts EXCEPT ![h] = q]
  BY <1>2, <1>3, <1>4, <1>5, <1>6, <1>7 DEF HostsType
<1>13. hosts' \in HostsType /\ \A k \in Hosts : hosts'[k].daemon = hosts[k].daemon
  BY <1>7, <1>11, <1>12 DEF HostsType
<1>14. cloud' \in StateType
  BY <1>1, <1>2 DEF State, StateType
<1>15. UNCHANGED <<cfg, seals, last, bound, late, life, checks, backs, cmd, told, receipt, used>>
  BY DEF Sync, files
<1>16. TypeInv'
  BY <1>13, <1>14, <1>15 DEF Inv, TypeInv
<1>17. QED
  BY <1>13, <1>15, <1>16, StillStep DEF Quiet

(* A daemon that was told to stop has stopped.                                *)
LEMMA DieStep == ASSUME Inv, NEW h \in Hosts, Die(h) PROVE Inv'
<1>1. hosts' = Stopped(h)
  BY DEF Die
<1>2. UNCHANGED <<cfg, cloud, seals, last, bound, late, life, checks, backs, cmd, told, receipt, used>>
  BY DEF Die, server, files
<1>3. hosts' \in HostsType /\ hosts'[h].daemon = "down" /\ OthersHosts(h)
  BY <1>1, StoppedLemma DEF Inv, TypeInv
<1>4. TypeInv'
  BY <1>2, <1>3 DEF Inv, TypeInv
<1>5. \A k \in Hosts : Quiet(k)
  BY <1>2, <1>3 DEF Quiet, OthersHosts
<1>6. QED
  BY <1>2, <1>4, <1>5, StillStep

(* An edit in a mount.                                                        *)
LEMMA EditLemma ==
    ASSUME Inv, NEW h \in Hosts, NEW e \in Int,
           hosts' = [hosts EXCEPT ![h].local = @ \union {e}], used' \in UsedType,
           UNCHANGED <<cfg, cloud, seals, last, bound, late, life, checks, backs, cmd, told, receipt>>
    PROVE  Inv'
<1>1. PICK m : m = [hosts[h] EXCEPT !.local = @ \union {e}]
  OBVIOUS
<1>2. hosts \in HostsType
  BY DEF Inv, TypeInv
<1>3. m \in HostType /\ m.daemon = hosts[h].daemon
  BY <1>1, <1>2 DEF HostsType, HostType
<1>4. hosts' = [hosts EXCEPT ![h] = m]
  BY <1>1, <1>2 DEF HostsType
<1>5. hosts' \in HostsType /\ \A k \in Hosts : hosts'[k].daemon = hosts[k].daemon
  BY <1>2, <1>3, <1>4 DEF HostsType
<1>6. TypeInv'
  BY <1>5 DEF Inv, TypeInv
<1>7. QED
  BY <1>5, <1>6, StillStep DEF Quiet

(* A turn of an agent, and a stray write.                                     *)
LEMMA EditSteps == ASSUME Inv, NEW h \in Hosts, Turn(h) \/ Stray(h) PROVE Inv'
<1>1. used \in UsedType /\ used.edits + 1 \in Int /\ 100 + used.strays \in Int
  BY DEF Inv, TypeInv, UsedType
<1>2. CASE Turn(h)
  <2>1. used' \in UsedType
    BY <1>1, <1>2, SpendLemma DEF Turn
  <2>2. QED
    BY <1>1, <1>2, <2>1, EditLemma DEF Turn, server, files
<1>3. CASE Stray(h)
  <2>1. used' \in UsedType
    BY <1>1, <1>3, SpendLemma DEF Stray
  <2>2. QED
    BY <1>1, <1>3, <2>1, EditLemma DEF Stray, server, files
<1>4. QED
  BY <1>2, <1>3

(* A write of someone else's.                                                 *)
LEMMA ExternalStep == ASSUME Inv, External PROVE Inv'
<1>1. used \in UsedType /\ cloud \in StateType
  BY DEF Inv, TypeInv
<1>2. used' \in UsedType
  BY <1>1, SpendLemma DEF External
<1>3. PICK new \in {cloud.files, cloud.files \union {200 + used.events}} :
         cloud' = State(new, cloud.cursor + 1)
  BY DEF External
<1>4. new \in SUBSET Int /\ cloud.cursor + 1 \in Int
  BY <1>1 DEF StateType, UsedType
<1>5. cloud' \in StateType
  BY <1>3, <1>4 DEF State, StateType
<1>6. UNCHANGED <<cfg, seals, last, bound, late, hosts, life, checks, backs, cmd, told, receipt>>
  BY DEF External, files
<1>7. TypeInv'
  BY <1>2, <1>5, <1>6 DEF Inv, TypeInv
<1>8. QED
  BY <1>6, <1>7, StillStep DEF Quiet

(* A command is killed.                                                       *)
LEMMA KillStep == ASSUME Inv, NEW h \in Hosts, Kill(h) PROVE Inv'
<1>1. cmd' \in CmdsType /\ OthersCmds(h) /\ cmd'[h] = Idle
  BY ExitLemma DEF Kill, Inv, TypeInv
<1>2. used' \in UsedType
  BY SpendLemma DEF Kill, Fault, Inv, TypeInv
<1>3. UNCHANGED <<cfg, cloud, seals, last, bound, late, hosts, life, checks, backs, told, receipt>>
  BY DEF Kill, server, files
<1>4. TypeInv'
  BY <1>1, <1>2, <1>3 DEF Inv, TypeInv
<1>5. \A k \in Hosts : Quiet(k)
  BY <1>1, <1>3 DEF Quiet, OthersCmds
<1>6. QED
  BY <1>3, <1>4, <1>5, StillStep
-----------------------------------------------------------------------------
(* The steps of the source.                                                   *)
NoStale == \A c \in Configs : ~c.stale

(* While a command of the source runs, other than the burning of a receipt,   *)
(* every sealed lifecycle has the proof of its resume.                        *)
LEMMA NoneSealed ==
    ASSUME Inv, cmd[Source].op # "none", ~(cmd[Source].op = "resume" /\ cmd[Source].pc = "burn")
    PROVE  \A g \in Gens : Sealed(g) => life[g].proof
  BY IdleLemma DEF Inv, LifeInv, LifeOK

(* The others' lifecycle files are not touched.                               *)
LEMMA OthersLife ==
    ASSUME Inv, TypeInv', Forward, NEW g \in Gens,
           life'[g] = life[g], told'[g] = told[g], Sealed(g) => life[g].proof
    PROVE  LifeOK(g)' /\ (Opened(g) => Opened(g)')
<1>1. LifeOK(g) /\ (Gone(g) => Gone(g)') /\ last' >= last
  BY DEF Inv, LifeInv, Forward
<1>2. last \in Int /\ last' \in Int /\ g \in Int
  BY CheckpointAssumption DEF Inv, TypeInv
<1>3. Sealed(g) = Sealed(g)'
  BY DEF Sealed
<1>4. QED
  BY <1>1, <1>2, <1>3 DEF LifeOK, Opened

(* No lifecycle begins.                                                       *)
LEMMA NewestKept ==
    ASSUME Inv, \A g \in Gens : /\ Active(g)' => Active(g)
                                /\ life'[g].status # "none" => life[g].status # "none"
    PROVE  \A g \in Gens : NewestOK(g)'
  BY DEF Inv, LifeInv, NewestOK

(* A step of the source's that does not touch the seals.                      *)
LEMMA SourceMoves ==
    ASSUME Inv, TypeInv', LifeInv', SourceCmd', \A g \in Gens : Opened(g) => Opened(g)',
           UNCHANGED <<seals, last, backs, receipt>>, OthersHosts(Source), OthersCmds(Source)
    PROVE  Inv'
<1>1. Forward /\ SealInv'
  BY SealsFrame DEF Inv
<1>2. \A d \in Dests : Quiet(d)
  BY CheckpointAssumption DEF Quiet, OthersHosts, OthersCmds, Hosts
<1>3. QED
  BY <1>1, <1>2, SourceSide DEF Inv

(* A mount is started by a command of the source.                             *)
LEMMA StartSourceStep == ASSUME Inv, StartMount(Source) PROVE Inv'
<1>1. hosts' \in HostsType /\ OthersHosts(Source)
  BY StartedLemma DEF StartMount, Inv, TypeInv, Hosts
<1>2. UNCHANGED <<cfg, cloud, seals, last, bound, late, life, checks, backs, cmd, told, receipt, used>>
  BY DEF StartMount, server, files
<1>3. TypeInv'
  BY <1>1, <1>2 DEF Inv, TypeInv
<1>4. <<cmd[Source].op, cmd[Source].pc>> \in Ensuring
  BY DEF StartMount
<1>5. /\ cmd[Source].op # "none"
      /\ ~(cmd[Source].op = "resume" /\ cmd[Source].pc = "burn")
      /\ cmd[Source].pc \notin {"drain", "issue", "final"}
  BY <1>4 DEF Ensuring
<1>6. Forward
  BY <1>2, SealsFrame DEF Inv
<1>7. \A g \in Gens : LifeOK(g)' /\ (Opened(g) => Opened(g)')
  BY <1>2, <1>3, <1>5, <1>6, NoneSealed, OthersLife
<1>8. \A g \in Gens : NewestOK(g)'
  BY <1>2, NewestKept DEF Active
<1>9. SourceCmd'
  BY <1>2, <1>5 DEF Inv, SourceCmd
<1>10. QED
  BY <1>1, <1>2, <1>3, <1>7, <1>8, <1>9, SourceMoves DEF LifeInv, OthersCmds

(* runMountCheckpointSeal begins a lifecycle.                                 *)
LEMMA SealBeginStep == ASSUME Inv, NoStale, NEW g \in Gens, SealBegin(g) PROVE Inv'
<1>1. UNCHANGED <<cfg, cloud, seals, last, bound, late, hosts, checks, backs, told, receipt, used>>
  BY DEF SealBegin, server
<1>2. g \in Int /\ \A n \in Gens : n \in Int
  BY CheckpointAssumption
<1>3. /\ \A n \in Gens : life[n].status # "none" => n < g
      /\ \A n \in Gens : ~Active(n)
  <2>1. ~cfg.stale
    BY DEF Inv, TypeInv, NoStale
  <2>2. QED
    BY <2>1 DEF SealBegin, Active
<1>4. /\ life' \in LivesType
      /\ \A n \in Gens \ {g} : life'[n] = life[n]
      /\ life'[g].status = "preparing" /\ life'[g].proof = life[g].proof
  <2>1. "preparing" \in LifeStatus /\ life \in LivesType /\ SetLife(g, "preparing")
    BY DEF SealBegin, LifeStatus, Inv, TypeInv
  <2>2. QED
    BY <2>1, SetLifeLemma
<1>5. /\ cmd' \in CmdsType /\ OthersCmds(Source)
      /\ cmd'[Source].op = "seal" /\ cmd'[Source].id = g /\ cmd'[Source].pc = "stop"
  <2>1. /\ cmd \in CmdsType /\ Source \in Hosts /\ "seal" \in Ops /\ "stop" \in Pcs
        /\ cmd' = [cmd EXCEPT ![Source] = Run("seal", g, "stop")]
    BY DEF SealBegin, Hosts, Ops, Pcs, Inv, TypeInv
  <2>2. QED
    BY <1>2, <2>1, RunLemma
<1>6. TypeInv'
  BY <1>1, <1>4, <1>5 DEF Inv, TypeInv
<1>7. Forward
  BY <1>1, SealsFrame DEF Inv
<1>8. \A n \in Gens \ {g} : LifeOK(n)' /\ (Opened(n) => Opened(n)')
  BY <1>1, <1>3, <1>4, <1>6, <1>7, OthersLife DEF Active, Sealed
<1>9. life[g].status = "none" /\ ~Sealed(g) /\ ~Sealed(g)'
  BY <1>2, <1>3, <1>4 DEF Sealed
<1>10. ~life[g].proof /\ (told[g] # 0 => Opened(g))
  BY <1>9 DEF Inv, LifeInv, LifeOK
<1>11. Opened(g) => Opened(g)'
  BY <1>7, <1>9 DEF Opened, Forward
<1>12. LifeOK(g)'
  BY <1>1, <1>4, <1>9, <1>10, <1>11 DEF LifeOK
<1>13. \A n \in Gens : NewestOK(n)'
  <2>1. \A n \in Gens \ {g} : ~Active(n)'
    BY <1>3, <1>4 DEF Active
  <2>2. \A n \in Gens : life'[n].status # "none" => n <= g
    BY <1>2, <1>3, <1>4
  <2>3. QED
    BY <2>1, <2>2 DEF NewestOK
<1>14. SourceCmd'
  BY <1>4, <1>5 DEF SourceCmd
<1>15. QED
  BY <1>1, <1>5, <1>6, <1>8, <1>11, <1>12, <1>13, <1>14, SourceMoves DEF LifeInv, OthersHosts

(* The newest lifecycle is the only one that may be sealed.                   *)
LEMMA NewestSealed ==
    ASSUME Inv, NoStale, NEW g \in Gens, Newest(g), life[g].status # "none"
    PROVE  \A n \in Gens \ {g} : ~Sealed(n)
<1> SUFFICES ASSUME NEW n \in Gens \ {g}, Sealed(n) PROVE FALSE
  OBVIOUS
<1>1. ~cfg.stale
  BY DEF Inv, TypeInv, NoStale
<1>2. \A k \in Gens : k > g => life[k].status = "none"
  BY <1>1 DEF Newest
<1>3. g \in Int /\ n \in Int
  BY CheckpointAssumption
<1>4. g <= n
  BY DEF Inv, LifeInv, NewestOK, Active, Sealed
<1>5. life[n].status # "none"
  BY DEF Sealed
<1>6. QED
  BY <1>2, <1>3, <1>4, <1>5

(* A command of the source begins, which leaves the lifecycle's file alone.   *)
LEMMA CommandBegins ==
    ASSUME Inv, NEW g \in Gens, NEW op \in Ops, NEW pc \in Pcs,
           cmd' = [cmd EXCEPT ![Source] = Run(op, g, pc)], SourceCmd',
           \A n \in Gens : Sealed(n) => life[n].proof,
           UNCHANGED <<cfg, cloud, seals, last, bound, late, hosts, life, checks, backs, told, receipt, used>>
    PROVE  Inv'
<1>1. cmd' \in CmdsType /\ OthersCmds(Source)
  <2>1. cmd \in CmdsType /\ Source \in Hosts /\ g \in Int
    BY CheckpointAssumption DEF Inv, TypeInv, Hosts
  <2>2. QED
    BY <2>1, RunLemma
<1>2. TypeInv'
  BY <1>1 DEF Inv, TypeInv
<1>3. Forward
  BY SealsFrame DEF Inv
<1>4. \A n \in Gens : LifeOK(n)' /\ (Opened(n) => Opened(n)')
  BY <1>2, <1>3, OthersLife
<1>5. \A n \in Gens : NewestOK(n)'
  BY NewestKept DEF Active
<1>6. QED
  BY <1>1, <1>2, <1>4, <1>5, SourceMoves DEF LifeInv, OthersHosts

(* The same lifecycle id again.                                               *)
LEMMA SealAgainStep == ASSUME Inv, NoStale, NEW g \in Gens, SealAgain(g) PROVE Inv'
<1>1. UNCHANGED <<cfg, cloud, seals, last, bound, late, hosts, life, checks, backs, receipt, used>>
  BY DEF SealAgain, server, files
<1>2. CASE /\ life[g].status = "sealed"
           /\ told' = [told EXCEPT ![g] = life[g].token] /\ UNCHANGED cmd
  <2>1. told' \in [Gens -> Int] /\ \A n \in Gens \ {g} : told'[n] = told[n]
    BY <1>2 DEF Inv, TypeInv, LivesType, LifeType
  <2>2. TypeInv'
    BY <1>1, <1>2, <2>1 DEF Inv, TypeInv
  <2>3. \A n \in Gens : /\ Sealed(n) = Sealed(n)' /\ Active(n) = Active(n)'
                        /\ Gone(n) = Gone(n)' /\ Opened(n) = Opened(n)'
    BY <1>1 DEF Sealed, Active, Gone, Opened
  <2>4. ASSUME NEW n \in Gens PROVE LifeOK(n)'
    <3>1. LifeOK(n) /\ Opened(g)
      BY <1>2 DEF Inv, LifeInv, Opened, Sealed
    <3>2. told'[n] = told[n] \/ n = g
      BY <2>1
    <3>3. QED
      BY <1>1, <1>2, <2>3, <3>1, <3>2 DEF LifeOK
  <2>5. \A n \in Gens : NewestOK(n)'
    BY <1>1, <2>3, NewestKept
  <2>6. SourceCmd'
    BY <1>1, <1>2 DEF Inv, SourceCmd
  <2>7. QED
    BY <1>1, <1>2, <2>2, <2>3, <2>4, <2>5, <2>6, SourceMoves DEF LifeInv, OthersHosts, OthersCmds
<1>3. CASE /\ life[g].status \in {"preparing", "stopped"} /\ UNCHANGED told
           /\ cmd' = [cmd EXCEPT ![Source] = Run("seal", g, "recover")]
  <2>1. \A n \in Gens : ~Sealed(n)
    BY <1>3, NewestSealed DEF SealAgain, Sealed
  <2>2. "seal" \in Ops /\ "recover" \in Pcs /\ Source \in Hosts /\ g \in Int
    BY CheckpointAssumption DEF Ops, Pcs, Hosts
  <2>3. /\ cmd'[Source].op = "seal" /\ cmd'[Source].id = g /\ cmd'[Source].pc = "recover"
    BY <1>3, <2>2, RunLemma DEF Inv, TypeInv
  <2>4. SourceCmd'
    BY <1>1, <1>3, <2>3 DEF SourceCmd
  <2>5. QED
    BY <1>1, <1>3, <2>1, <2>2, <2>4, CommandBegins
<1>4. QED
  BY <1>2, <1>3 DEF SealAgain

(* A command of the source goes on, other than the burning of a receipt. What *)
(* it says of its lifecycle is neither that it is sealed nor that it is       *)
(* proven.                                                                    *)
LEMMA CommandGoesOn ==
    ASSUME Inv, TypeInv', SourceCmd', NEW i \in Gens,
           cmd[Source].op # "none", ~(cmd[Source].op = "resume" /\ cmd[Source].pc = "burn"),
           UNCHANGED <<seals, last, backs, told, receipt>>,
           OthersHosts(Source), OthersCmds(Source),
           \A n \in Gens \ {i} : life'[n] = life[n],
           \/ life'[i] = life[i]
           \/ /\ ~Sealed(i) /\ ~Sealed(i)' /\ ~life'[i].proof
              /\ life[i].status # "none" /\ (Active(i)' => Active(i))
    PROVE  Inv'
<1>1. \A n \in Gens : Sealed(n) => life[n].proof
  BY NoneSealed
<1>2. Forward
  BY SealsFrame DEF Inv
<1>3. \A n \in Gens : life'[n] = life[n] => LifeOK(n)' /\ (Opened(n) => Opened(n)')
  BY <1>1, <1>2, OthersLife
<1>4. CASE life'[i] # life[i]
  <2>1. Gone(i) => Gone(i)'
    BY <1>2 DEF Forward
  <2>2. Opened(i) => Opened(i)'
    BY <1>4, <2>1 DEF Opened
  <2>3. LifeOK(i)'
    <3>1. ~Sealed(i)' /\ ~life'[i].proof
      BY <1>4
    <3>2. told'[i] # 0 => Opened(i)
      BY DEF Inv, LifeInv, LifeOK
    <3>3. QED
      BY <2>2, <3>1, <3>2 DEF LifeOK
  <2>4. \A n \in Gens : LifeOK(n)' /\ (Opened(n) => Opened(n)')
    BY <1>3, <2>2, <2>3
  <2>5. \A n \in Gens : /\ Active(n)' => Active(n)
                        /\ life'[n].status # "none" => life[n].status # "none"
    BY <1>4 DEF Active
  <2>6. \A n \in Gens : NewestOK(n)'
    BY <2>5, NewestKept
  <2>7. QED
    BY <2>4, <2>6, SourceMoves DEF LifeInv
<1>5. CASE life'[i] = life[i]
  <2>1. \A n \in Gens : LifeOK(n)' /\ (Opened(n) => Opened(n)')
    BY <1>3, <1>5
  <2>2. \A n \in Gens : NewestOK(n)'
    BY <1>5, NewestKept DEF Active
  <2>3. QED
    BY <2>1, <2>2, SourceMoves DEF LifeInv
<1>6. QED
  BY <1>4, <1>5

(* A seal's command has a lifecycle that is not sealed yet.                   *)
LEMMA SealsOwn ==
    ASSUME Inv, cmd[Source].op = "seal"
    PROVE  /\ cmd[Source].id \in Gens
           /\ life[cmd[Source].id].status \in {"preparing", "stopped"}
           /\ ~Sealed(cmd[Source].id) /\ Active(cmd[Source].id)
           /\ ~life[cmd[Source].id].proof
           /\ Source \in Hosts
  BY DEF Inv, SourceCmd, LifeInv, LifeOK, Sealed, Active, Hosts

(* The source is stopped, or does not stop in time.                           *)
LEMMA SealStopStep == ASSUME Inv, SealStop PROVE Inv'
<1>1. cmd[Source].op = "seal"
  BY DEF SealStop, Sealing
<1>2. PICK i \in Gens : /\ i = cmd[Source].id /\ Source \in Hosts
                        /\ life[i].status \in {"preparing", "stopped"}
                        /\ ~Sealed(i) /\ Active(i) /\ ~life[i].proof
  BY <1>1, SealsOwn
<1>3. UNCHANGED <<cfg, cloud, seals, last, bound, late, checks, backs, told, receipt>>
  BY DEF SealStop, server
<1>4. hosts \in HostsType /\ cmd \in CmdsType /\ life \in LivesType /\ used \in UsedType
  BY DEF Inv, TypeInv
<1>5. CASE /\ hosts' = Stopped(Source) /\ SetLife(i, "stopped")
           /\ Goto(Source, "drain") /\ UNCHANGED used
  <2>1. "drain" \in Pcs /\ "stopped" \in LifeStatus
    BY DEF Pcs, LifeStatus
  <2>2. hosts' \in HostsType /\ hosts'[Source].daemon = "down" /\ OthersHosts(Source)
    BY <1>2, <1>4, <1>5, StoppedLemma
  <2>3. /\ cmd' \in CmdsType /\ OthersCmds(Source)
        /\ cmd'[Source].op = "seal" /\ cmd'[Source].id = i /\ cmd'[Source].pc = "drain"
    BY <1>1, <1>2, <1>4, <1>5, <2>1, GotoLemma
  <2>4. /\ life' \in LivesType /\ \A n \in Gens \ {i} : life'[n] = life[n]
        /\ life'[i].status = "stopped" /\ life'[i].proof = life[i].proof
    BY <1>4, <1>5, <2>1, SetLifeLemma
  <2>5. TypeInv'
    BY <1>3, <1>5, <2>2, <2>3, <2>4 DEF Inv, TypeInv
  <2>6. SourceCmd'
    BY <2>2, <2>3, <2>4 DEF SourceCmd
  <2>7. ~Sealed(i)' /\ ~life'[i].proof /\ life[i].status # "none"
    BY <1>2, <2>4 DEF Sealed
  <2>8. QED
    BY <1>1, <1>2, <1>3, <2>2, <2>3, <2>4, <2>5, <2>6, <2>7, CommandGoesOn
<1>6. CASE StopTimesOut(Source) /\ Goto(Source, "recover") /\ UNCHANGED life
  <2>1. "recover" \in Pcs
    BY DEF Pcs
  <2>2. hosts' \in HostsType /\ OthersHosts(Source)
    BY <1>2, <1>4, <1>6, StoppingLemma DEF StopTimesOut
  <2>3. /\ cmd' \in CmdsType /\ OthersCmds(Source)
        /\ cmd'[Source].op = "seal" /\ cmd'[Source].id = i /\ cmd'[Source].pc = "recover"
    BY <1>1, <1>2, <1>4, <1>6, <2>1, GotoLemma
  <2>4. used' \in UsedType
    BY <1>4, <1>6, SpendLemma DEF StopTimesOut, Fault
  <2>5. TypeInv'
    BY <1>3, <1>6, <2>2, <2>3, <2>4 DEF Inv, TypeInv
  <2>6. SourceCmd'
    BY <1>2, <1>6, <2>3 DEF SourceCmd
  <2>7. QED
    BY <1>1, <1>2, <1>3, <1>6, <2>2, <2>3, <2>5, <2>6, CommandGoesOn
<1>7. QED
  BY <1>2, <1>5, <1>6 DEF SealStop

(* The source is drained and scanned.                                         *)
LEMMA SealDrainStep == ASSUME Inv, SealDrain PROVE Inv'
<1>1. cmd[Source].op = "seal" /\ cmd[Source].pc = "drain"
  BY DEF SealDrain, Sealing
<1>2. PICK i \in Gens : /\ i = cmd[Source].id /\ Source \in Hosts
                        /\ life[i].status \in {"preparing", "stopped"}
  BY <1>1, SealsOwn
<1>3. UNCHANGED <<cfg, seals, last, bound, late, life, checks, backs, told, receipt>>
  BY DEF SealDrain, files
<1>4. hosts \in HostsType /\ cmd \in CmdsType /\ cloud \in StateType /\ used \in UsedType
  BY DEF Inv, TypeInv
<1>5. hosts[Source].daemon = "down"
  BY <1>1 DEF Inv, SourceCmd
<1>6. CASE /\ Drain(Source) /\ UNCHANGED used
           /\ cmd' = [cmd EXCEPT ![Source].pc = "issue", ![Source].scan = hosts[Source].local]
  <2>1. "issue" \in Pcs /\ hosts[Source].local \in SUBSET Int
    BY <1>2, <1>4 DEF Pcs, HostsType, HostType
  <2>2. /\ hosts' \in HostsType /\ cloud' \in StateType /\ OthersHosts(Source)
        /\ hosts'[Source].daemon = "down"
    BY <1>2, <1>4, <1>5, <1>6, DrainLemma
  <2>3. /\ cmd' \in CmdsType /\ OthersCmds(Source)
        /\ cmd'[Source].op = "seal" /\ cmd'[Source].id = i /\ cmd'[Source].pc = "issue"
    BY <1>1, <1>2, <1>4, <1>6, <2>1, ScanLemma
  <2>4. TypeInv'
    BY <1>3, <1>6, <2>2, <2>3 DEF Inv, TypeInv
  <2>5. SourceCmd'
    BY <1>2, <1>3, <2>2, <2>3 DEF SourceCmd
  <2>6. QED
    BY <1>1, <1>2, <1>3, <2>2, <2>3, <2>4, <2>5, CommandGoesOn
<1>7. CASE Fault /\ Goto(Source, "recover") /\ UNCHANGED <<cloud, hosts>>
  <2>1. "recover" \in Pcs
    BY DEF Pcs
  <2>2. /\ cmd' \in CmdsType /\ OthersCmds(Source)
        /\ cmd'[Source].op = "seal" /\ cmd'[Source].id = i /\ cmd'[Source].pc = "recover"
    BY <1>1, <1>2, <1>4, <1>7, <2>1, GotoLemma
  <2>3. used' \in UsedType
    BY <1>4, <1>7, SpendLemma DEF Fault
  <2>4. TypeInv'
    BY <1>3, <1>7, <2>2, <2>3 DEF Inv, TypeInv
  <2>5. SourceCmd'
    BY <1>2, <1>3, <2>2 DEF SourceCmd
  <2>6. QED
    BY <1>1, <1>2, <1>3, <1>7, <2>2, <2>4, <2>5, CommandGoesOn DEF OthersHosts
<1>8. QED
  BY <1>6, <1>7 DEF SealDrain
-----------------------------------------------------------------------------
(* Steps that change a seal.                                                  *)

(* One seal is replaced, with nobody's ownership taken or given back.         *)
LEMMA Moved ==
    ASSUME Inv, NEW g \in Gens, NEW s, Kept(seals[g], s),
           seals' = [seals EXCEPT ![g] = s], last' \in Int, last' >= last,
           s.issued => g <= last',
           s.consumer # NoOne => s.issued, s.resumed # "no" => s.issued,
           s.consumer = seals[g].consumer \/ (Opened(g) /\ ~s.released /\ s.resumed = "no"),
           Gone(g) => s.resumed # "no" \/ (~s.issued /\ g <= last')
    PROVE  /\ seals' \in [Gens -> SealType] /\ Forward
           /\ (\A n \in Gens : Opened(n) => Opened(n)') => SealInv'
<1>1. seals \in [Gens -> SealType] /\ last \in Int
  BY DEF Inv, TypeInv
<1>2. seals'[g] = s /\ \A n \in Gens \ {g} : seals'[n] = seals[n]
  BY <1>1
<1>3. seals' \in [Gens -> SealType]
  BY <1>1 DEF Kept
<1>4. \A n \in Gens : n \in Int
  BY CheckpointAssumption
<1>5. ASSUME NEW n \in Gens PROVE Gone(n) => Gone(n)'
  <2>1. CASE n = g
    BY <1>2, <2>1 DEF Gone
  <2>2. CASE n # g
    BY <1>1, <1>2, <1>4, <2>2 DEF Gone
  <2>3. QED
    BY <2>1, <2>2
<1>6. ASSUME NEW d \in Dests, NEW n \in Gens
      PROVE  /\ Owned(d, n) => Owned(d, n)'
             /\ seals'[n].consumer = d => seals[n].consumer = d \/ Owned(d, n)'
  <2>1. d # NoOne
    BY CheckpointAssumption
  <2>2. CASE n = g
    BY <1>2, <2>1, <2>2 DEF Owned, Kept
  <2>3. CASE n # g
    BY <1>2, <2>3 DEF Owned
  <2>4. QED
    BY <2>2, <2>3
<1>7. ASSUME \A n \in Gens : Opened(n) => Opened(n)' PROVE SealInv'
  <2> SUFFICES ASSUME NEW n \in Gens
               PROVE  /\ seals'[n].issued => n <= last'
                      /\ seals'[n].consumer # NoOne => seals'[n].issued /\ Opened(n)'
                      /\ seals'[n].resumed # "no" => seals'[n].issued
    BY DEF SealInv
  <2>1. /\ seals[n].issued => n <= last
        /\ seals[n].consumer # NoOne => seals[n].issued /\ Opened(n)
        /\ seals[n].resumed # "no" => seals[n].issued
    BY DEF Inv, SealInv
  <2>2. CASE n = g
    BY <1>2, <1>7, <2>1, <2>2
  <2>3. CASE n # g
    BY <1>1, <1>2, <1>4, <1>7, <2>1, <2>3
  <2>4. QED
    BY <2>2, <2>3
<1>8. QED
  BY <1>3, <1>5, <1>6, <1>7 DEF Forward

(* The lifecycle files stay as they are, and so does what was opened.         *)
LEMMA OpenedKept ==
    ASSUME Forward, UNCHANGED life
    PROVE  \A g \in Gens : Opened(g) => Opened(g)'
  BY DEF Forward, Opened, Sealed

(* IssueCheckpointSeal, as a step.                                            *)
LEMMA IssueSeals ==
    ASSUME Inv, NEW g \in Gens, NEW digest \in SUBSET Int, Issue(g, digest), UNCHANGED life
    PROVE  LET out == issueCheckpointSeal(seals[g], g, last, digest, cloud)
           IN /\ seals' \in [Gens -> SealType] /\ last' \in Int /\ Forward /\ SealInv'
              /\ out.seal.token \in Int
              /\ out.code = "ok" => g <= last'
<1> DEFINE out == issueCheckpointSeal(seals[g], g, last, digest, cloud)
<1>1. seals[g] \in SealType /\ last \in Int /\ g \in Int /\ cloud \in StateType
  BY CheckpointAssumption DEF Inv, TypeInv
<1>2. /\ seals[g].issued => g <= last
      /\ seals[g].consumer # NoOne => seals[g].issued
      /\ seals[g].resumed # "no" => seals[g].issued
  BY DEF Inv, SealInv
<1>3. /\ Kept(seals[g], out.seal)
      /\ out.seal.consumer = seals[g].consumer
      /\ out.seal.resumed = seals[g].resumed
      /\ out.seal.issued => seals[g].issued \/ out.code = "ok"
      /\ out.code = "ok" => seals[g].issued \/ g > last
      /\ ~seals[g].issued /\ g <= last => out.seal = seals[g]
  BY <1>1, <1>2, IssueLemma
<1>4. seals' = [seals EXCEPT ![g] = out.seal]
  BY DEF Issue, Apply
<1>5. last' = IF out.code = "ok" /\ g > last THEN g ELSE last
  BY DEF Issue
<1> HIDE DEF out
<1>6. last' \in Int /\ last' >= last /\ (out.code = "ok" => g <= last')
  BY <1>1, <1>2, <1>3, <1>5
<1>7. out.seal.issued => g <= last'
  BY <1>1, <1>2, <1>3, <1>6
<1>8. Gone(g) => out.seal.resumed # "no" \/ (~out.seal.issued /\ g <= last')
  BY <1>1, <1>3, <1>6 DEF Gone
<1>9. /\ out.seal.consumer # NoOne => out.seal.issued
      /\ out.seal.resumed # "no" => out.seal.issued
  BY <1>2, <1>3 DEF Kept
<1>10. /\ seals' \in [Gens -> SealType] /\ Forward
       /\ (\A n \in Gens : Opened(n) => Opened(n)') => SealInv'
  BY <1>3, <1>4, <1>6, <1>7, <1>8, <1>9, Moved
<1>11. out.seal.token \in Int
  BY <1>3 DEF Kept, SealType
<1>12. QED
  BY <1>6, <1>10, <1>11, OpenedKept DEF out

(* A command of the source's that asks for a seal.                            *)
LEMMA IssueMoves ==
    ASSUME Inv, TypeInv', Forward, SealInv', SourceCmd', cmd[Source].op = "seal",
           UNCHANGED <<hosts, life, backs, told, receipt>>, OthersCmds(Source)
    PROVE  Inv'
<1>1. \A n \in Gens : Sealed(n) => life[n].proof
  BY NoneSealed
<1>2. \A n \in Gens : LifeOK(n)'
  BY <1>1, OthersLife
<1>3. \A n \in Gens : NewestOK(n)'
  BY NewestKept DEF Active
<1>4. \A d \in Dests : Quiet(d)
  BY CheckpointAssumption DEF Quiet, OthersCmds, Hosts
<1>5. QED
  BY <1>2, <1>3, <1>4, SourceSide DEF Inv, LifeInv

(* The request for a seal: answered, unanswered, or delayed.                  *)
LEMMA SealIssueStep == ASSUME Inv, SealIssue PROVE Inv'
<1>1. cmd[Source].op = "seal" /\ cmd[Source].pc = "issue"
  BY DEF SealIssue, Sealing
<1>2. PICK g \in Gens : /\ g = cmd[Source].id /\ Source \in Hosts
                        /\ life[g].status \in {"preparing", "stopped"}
  BY <1>1, SealsOwn
<1>3. PICK digest \in SUBSET Int : digest = cmd[Source].scan
  BY <1>2 DEF Inv, TypeInv, CmdsType, CmdType
<1>4. PICK out : out = issueCheckpointSeal(seals[g], g, last, digest, cloud)
  OBVIOUS
<1>5. UNCHANGED <<cfg, cloud, bound, hosts, life, checks, backs, told, receipt>>
  BY DEF SealIssue, files
<1>6. cmd \in CmdsType /\ used \in UsedType /\ hosts[Source].daemon = "down"
  BY <1>1 DEF Inv, TypeInv, SourceCmd
<1>7. CASE Issue(g, digest) /\ UNCHANGED late
  <2>1. /\ seals' \in [Gens -> SealType] /\ last' \in Int /\ Forward /\ SealInv'
        /\ out.seal.token \in Int /\ (out.code = "ok" => g <= last')
    BY <1>4, <1>5, <1>7, IssueSeals
  <2>2. CASE /\ cmd' = [cmd EXCEPT ![Source].pc = IF out.code = "ok" THEN "final" ELSE "recover",
                                   ![Source].token = out.seal.token]
             /\ UNCHANGED used
    <3>1. PICK pc \in Pcs : pc = IF out.code = "ok" THEN "final" ELSE "recover"
      BY DEF Pcs
    <3>2. /\ cmd' \in CmdsType /\ OthersCmds(Source)
          /\ cmd'[Source].op = "seal" /\ cmd'[Source].id = g /\ cmd'[Source].pc = pc
      BY <1>1, <1>2, <1>6, <2>1, <2>2, <3>1, TokenLemma
    <3>3. TypeInv'
      BY <1>5, <1>7, <2>1, <2>2, <3>2 DEF Inv, TypeInv
    <3>4. SourceCmd'
      BY <1>2, <1>5, <1>6, <2>1, <3>1, <3>2 DEF SourceCmd
    <3>5. QED
      BY <1>1, <1>5, <2>1, <3>2, <3>3, <3>4, IssueMoves
  <2>3. CASE Fault /\ UNCHANGED cmd
    <3>1. used' \in UsedType
      BY <1>6, <2>3, SpendLemma DEF Fault
    <3>2. TypeInv'
      BY <1>5, <1>7, <2>1, <2>3, <3>1 DEF Inv, TypeInv
    <3>3. SourceCmd'
      BY <1>1, <1>2, <1>5, <1>6, <2>3 DEF SourceCmd
    <3>4. QED
      BY <1>1, <1>5, <2>1, <2>3, <3>2, <3>3, IssueMoves DEF OthersCmds
  <2>4. CASE Fault /\ Goto(Source, "recover")
    <3>1. used' \in UsedType
      BY <1>6, <2>4, SpendLemma DEF Fault
    <3>2. "recover" \in Pcs
      BY DEF Pcs
    <3>3. /\ cmd' \in CmdsType /\ OthersCmds(Source)
          /\ cmd'[Source].op = "seal" /\ cmd'[Source].id = g /\ cmd'[Source].pc = "recover"
      BY <1>1, <1>2, <1>6, <2>4, <3>2, GotoLemma
    <3>4. TypeInv'
      BY <1>5, <1>7, <2>1, <3>1, <3>3 DEF Inv, TypeInv
    <3>5. SourceCmd'
      BY <1>2, <1>5, <3>3 DEF SourceCmd
    <3>6. QED
      BY <1>1, <1>5, <2>1, <3>3, <3>4, <3>5, IssueMoves
  <2>5. QED
    <3>1. \/ /\ cmd' = [cmd EXCEPT ![Source].pc = IF out.code = "ok" THEN "final" ELSE "recover",
                                   ![Source].token = out.seal.token]
             /\ UNCHANGED used
          \/ Fault /\ (UNCHANGED cmd \/ Goto(Source, "recover"))
          \/ Fault /\ UNCHANGED cmd
      BY <1>2, <1>3, <1>4 DEF SealIssue
    <3>2. QED
      BY <2>2, <2>3, <2>4, <3>1
<1>8. CASE /\ Fault /\ late' = late \union {[gen |-> g, digest |-> digest]}
           /\ UNCHANGED <<seals, last, cmd>>
  <2>1. used' \in UsedType
    BY <1>6, <1>8, SpendLemma DEF Fault
  <2>2. late' \subseteq [gen : Gens, digest : SUBSET Int]
    <3>1. PICK r : r = [gen |-> g, digest |-> digest]
      OBVIOUS
    <3>2. r \in [gen : Gens, digest : SUBSET Int]
      BY <3>1
    <3>3. late \subseteq [gen : Gens, digest : SUBSET Int] /\ late' = late \union {r}
      BY <1>8, <3>1 DEF Inv, TypeInv
    <3>4. QED
      BY <3>2, <3>3
  <2>3. TypeInv'
    BY <1>5, <1>8, <2>1, <2>2 DEF Inv, TypeInv
  <2>4. QED
    BY <1>5, <1>8, <2>3, StillStep DEF Quiet
<1>9. QED
  BY <1>2, <1>3, <1>7, <1>8 DEF SealIssue

(* A request that arrives after its retry.                                    *)
LEMMA IssueLateStep == ASSUME Inv, IssueLate PROVE Inv'
<1>1. PICK r \in late : Issue(r.gen, r.digest) /\ late' = late \ {r}
  BY DEF IssueLate
<1>2. UNCHANGED <<cfg, cloud, bound, hosts, life, checks, backs, cmd, told, receipt, used>>
  BY DEF IssueLate, files
<1>3. late \subseteq [gen : Gens, digest : SUBSET Int]
  BY DEF Inv, TypeInv
<1>4. r.gen \in Gens /\ r.digest \in SUBSET Int
  BY <1>1, <1>3
<1>5. seals' \in [Gens -> SealType] /\ last' \in Int /\ Forward /\ SealInv'
  BY <1>1, <1>2, <1>4, IssueSeals
<1>6. TypeInv'
  BY <1>1, <1>2, <1>5 DEF Inv, TypeInv
<1>7. \A h \in Hosts : Quiet(h)
  BY <1>2 DEF Quiet
<1>8. LifeInv' /\ SourceCmd'
  BY <1>2, <1>5, <1>6, <1>7, LifeFrame DEF Hosts, Forward
<1>9. QED
  BY <1>2, <1>5, <1>6, <1>7, <1>8, SourceSide DEF Inv, Hosts

(* The closing scan, and the lifecycle file.                                  *)
LEMMA SealFinalStep == ASSUME Inv, SealFinal PROVE Inv'
<1>1. cmd[Source].op = "seal" /\ cmd[Source].pc = "final"
  BY DEF SealFinal, Sealing
<1>2. PICK i \in Gens : /\ i = cmd[Source].id /\ Source \in Hosts
                        /\ life[i].status \in {"preparing", "stopped"}
                        /\ ~Sealed(i) /\ Active(i) /\ ~life[i].proof
  BY <1>1, SealsOwn
<1>3. UNCHANGED <<cfg, cloud, seals, last, bound, late, hosts, checks, backs, receipt>>
  BY DEF SealFinal, server
<1>4. /\ cmd \in CmdsType /\ life \in LivesType /\ used \in UsedType
      /\ cmd[Source].token \in Int /\ hosts[Source].daemon = "down" /\ i <= last
  BY <1>1, <1>2 DEF Inv, TypeInv, CmdsType, CmdType, SourceCmd
<1>5. CASE /\ life' = [life EXCEPT ![i] = [@ EXCEPT !.status = "sealed", !.token = cmd[Source].token]]
           /\ \/ told' = [told EXCEPT ![i] = cmd[Source].token] /\ UNCHANGED used
              \/ Fault /\ UNCHANGED told
           /\ Exit(Source)
  <2>1. PICK f : f = [life[i] EXCEPT !.status = "sealed"]
    OBVIOUS
  <2>2. PICK k : k = [f EXCEPT !.token = cmd[Source].token]
    OBVIOUS
  <2>3. f \in LifeType /\ f.status = "sealed" /\ f.proof = life[i].proof
    BY <1>4, <2>1 DEF LivesType, LifeType, LifeStatus
  <2>4. k \in LifeType /\ k.status = "sealed" /\ k.proof = life[i].proof
    BY <1>4, <2>2, <2>3 DEF LifeType
  <2>5. life' = [life EXCEPT ![i] = k]
    BY <1>4, <1>5, <2>1, <2>2 DEF LivesType
  <2>6. /\ life' \in LivesType /\ \A n \in Gens \ {i} : life'[n] = life[n]
        /\ life'[i].status = "sealed" /\ ~life'[i].proof
    BY <1>2, <1>4, <2>4, <2>5 DEF LivesType
  <2>7. cmd' \in CmdsType /\ OthersCmds(Source) /\ cmd'[Source] = Idle /\ cmd'[Source].op = "none"
    BY <1>2, <1>4, <1>5, ExitLemma
  <2>8. told' \in [Gens -> Int] /\ \A n \in Gens \ {i} : told'[n] = told[n]
    BY <1>4, <1>5 DEF Inv, TypeInv
  <2>9. used' \in UsedType
    BY <1>4, <1>5, SpendLemma DEF Fault
  <2>10. TypeInv'
    BY <1>3, <2>6, <2>7, <2>8, <2>9 DEF Inv, TypeInv
  <2>11. Forward
    BY <1>3, SealsFrame DEF Inv
  <2>12. \A n \in Gens \ {i} : LifeOK(n)' /\ (Opened(n) => Opened(n)')
    BY <1>1, <2>6, <2>8, <2>10, <2>11, NoneSealed, OthersLife
  <2>13. Sealed(i)' /\ Opened(i)' /\ Active(i)'
    BY <2>6 DEF Sealed, Opened, Active
  <2>14. LifeOK(i)'
    BY <1>3, <1>4, <2>6, <2>7, <2>13 DEF LifeOK
  <2>15. \A n \in Gens : /\ Active(n)' => Active(n)
                         /\ life'[n].status # "none" => life[n].status # "none"
    BY <1>2, <2>6 DEF Active
  <2>16. \A n \in Gens : NewestOK(n)'
    BY <2>15, NewestKept
  <2>17. SourceCmd'
    BY <2>7 DEF SourceCmd
  <2>18. QED
    BY <1>3, <2>7, <2>10, <2>12, <2>13, <2>14, <2>16, <2>17, SourceMoves DEF LifeInv, OthersHosts
<1>6. CASE UNCHANGED <<life, told>> /\ (UNCHANGED used \/ Fault)
           /\ (Goto(Source, "recover") \/ Goto(Source, "unsaved"))
  <2>1. "recover" \in Pcs /\ "unsaved" \in Pcs
    BY DEF Pcs
  <2>2. /\ cmd' \in CmdsType /\ OthersCmds(Source)
        /\ cmd'[Source].op = "seal" /\ cmd'[Source].id = i
        /\ cmd'[Source].pc \in {"recover", "unsaved"}
    BY <1>1, <1>2, <1>4, <1>6, <2>1, GotoLemma
  <2>3. used' \in UsedType
    BY <1>4, <1>6, SpendLemma DEF Fault
  <2>4. TypeInv'
    BY <1>3, <1>6, <2>2, <2>3 DEF Inv, TypeInv
  <2>5. SourceCmd'
    BY <1>2, <1>6, <2>2 DEF SourceCmd
  <2>6. QED
    BY <1>1, <1>2, <1>3, <1>6, <2>2, <2>4, <2>5, CommandGoesOn DEF OthersHosts
<1>7. QED
  BY <1>2, <1>5, <1>6 DEF SealFinal

(* The source is started again after a seal that failed.                      *)
LEMMA SealRecoverStep == ASSUME Inv, SealRecover PROVE Inv'
<1>1. cmd[Source].op = "seal"
  BY DEF SealRecover, Sealing
<1>2. PICK i \in Gens : /\ i = cmd[Source].id /\ Source \in Hosts
                        /\ life[i].status \in {"preparing", "stopped"}
                        /\ ~Sealed(i) /\ Active(i) /\ ~life[i].proof
  BY <1>1, SealsOwn
<1>3. UNCHANGED <<cfg, cloud, seals, last, bound, late, hosts, checks, backs, told, receipt>>
  BY DEF SealRecover, server, Ensured, EnsureFails
<1>4. cmd \in CmdsType /\ life \in LivesType /\ used \in UsedType
  BY DEF Inv, TypeInv
<1>5. cmd' \in CmdsType /\ OthersCmds(Source) /\ cmd'[Source].op = "none"
  BY <1>2, <1>4, ExitLemma DEF SealRecover
<1>6. used' \in UsedType
  BY <1>4, SpendLemma DEF SealRecover, EnsureFails, Fault
<1>7. SourceCmd'
  BY <1>5 DEF SourceCmd
<1>8. CASE UNCHANGED life
  <2>1. TypeInv'
    BY <1>3, <1>5, <1>6, <1>8 DEF Inv, TypeInv
  <2>2. QED
    BY <1>1, <1>2, <1>3, <1>5, <1>7, <1>8, <2>1, CommandGoesOn DEF OthersHosts
<1>9. ASSUME NEW status \in {"preseal-failed-source-ready", "recovery-failed"},
             SetLife(i, status)
      PROVE  Inv'
  <2>1. status \in LifeStatus
    BY DEF LifeStatus
  <2>2. /\ life' \in LivesType /\ \A n \in Gens \ {i} : life'[n] = life[n]
        /\ life'[i].status = status /\ life'[i].proof = life[i].proof
    BY <1>4, <1>9, <2>1, SetLifeLemma
  <2>3. TypeInv'
    BY <1>3, <1>5, <1>6, <2>2 DEF Inv, TypeInv
  <2>4. ~Sealed(i)' /\ ~life'[i].proof /\ life[i].status # "none"
    BY <1>2, <2>2 DEF Sealed
  <2>5. QED
    BY <1>1, <1>2, <1>3, <1>5, <1>7, <2>2, <2>3, <2>4, CommandGoesOn DEF OthersHosts
<1>10. QED
  BY <1>2, <1>8, <1>9 DEF SealRecover
-----------------------------------------------------------------------------
(* runMountResumeSeal.                                                        *)

(* What a resume's command knows of its lifecycle.                            *)
LEMMA ResumesOwn ==
    ASSUME Inv, cmd[Source].op = "resume"
    PROVE  /\ cmd[Source].id \in Gens /\ Source \in Hosts
           /\ cmd[Source].pc = "restart" =>
                 /\ life[cmd[Source].id].status \in ResumesFrom
                 /\ ~Sealed(cmd[Source].id) /\ ~life[cmd[Source].id].proof
           /\ cmd[Source].pc # "restart" => life[cmd[Source].id].status = "resuming"
           /\ cmd[Source].pc = "burn" => ~life[cmd[Source].id].proof
           /\ cmd[Source].pc \in {"ensure", "proof"} => life[cmd[Source].id].proof
  BY DEF Inv, SourceCmd, LifeInv, LifeOK, Sealed, ResumesFrom, Hosts

(* A resume begins.                                                           *)
LEMMA ResumeBeginStep == ASSUME Inv, NoStale, NEW g \in Gens, ResumeBegin(g) PROVE Inv'
<1>1. UNCHANGED <<cfg, cloud, seals, last, bound, late, hosts, checks, backs, told, receipt, used>>
  BY DEF ResumeBegin, server
<1>2. cmd[Source] = Idle /\ Newest(g)
  BY DEF ResumeBegin
<1>3. /\ cmd \in CmdsType /\ life \in LivesType /\ Source \in Hosts /\ g \in Int
      /\ "resume" \in Ops /\ {"restart", "ensure", "burn"} \subseteq Pcs
      /\ "resuming" \in LifeStatus
  BY CheckpointAssumption DEF Inv, TypeInv, Hosts, Ops, Pcs, LifeStatus
<1>4. CASE /\ life[g].status \in ResumesFrom /\ UNCHANGED life
           /\ cmd' = [cmd EXCEPT ![Source] = Run("resume", g, "restart")]
  <2>1. \A n \in Gens : ~Sealed(n)
    BY <1>2, <1>4, NewestSealed DEF Sealed, ResumesFrom
  <2>2. cmd'[Source].op = "resume" /\ cmd'[Source].id = g /\ cmd'[Source].pc = "restart"
    BY <1>3, <1>4, RunLemma
  <2>3. SourceCmd'
    BY <1>4, <2>2 DEF SourceCmd
  <2>4. QED
    BY <1>1, <1>3, <1>4, <2>1, <2>3, CommandBegins
<1>5. CASE /\ life[g].status \in {"sealed", "resuming"} /\ SetLife(g, "resuming")
           /\ cmd' = [cmd EXCEPT ![Source] =
                        Run("resume", g, IF life[g].proof THEN "ensure" ELSE "burn")]
  <2>1. PICK pc \in Pcs : pc = IF life[g].proof THEN "ensure" ELSE "burn"
    BY <1>3
  <2>2. /\ cmd' \in CmdsType /\ OthersCmds(Source)
        /\ cmd'[Source].op = "resume" /\ cmd'[Source].id = g /\ cmd'[Source].pc = pc
    BY <1>3, <1>5, <2>1, RunLemma
  <2>3. /\ life' \in LivesType /\ \A n \in Gens \ {g} : life'[n] = life[n]
        /\ life'[g].status = "resuming" /\ life'[g].proof = life[g].proof
    BY <1>3, <1>5, SetLifeLemma
  <2>4. TypeInv'
    BY <1>1, <2>2, <2>3 DEF Inv, TypeInv
  <2>5. Forward
    BY <1>1, SealsFrame DEF Inv
  <2>6. \A n \in Gens \ {g} : ~Sealed(n)
    BY <1>2, <1>5, NewestSealed
  <2>7. \A n \in Gens \ {g} : LifeOK(n)' /\ (Opened(n) => Opened(n)')
    BY <1>1, <2>3, <2>4, <2>5, <2>6, OthersLife
  <2>8. Sealed(g) /\ Sealed(g)' /\ Opened(g)'
    BY <1>5, <2>3 DEF Sealed, Opened
  <2>9. LifeOK(g) /\ (Gone(g) => Gone(g)')
    BY <2>5 DEF Inv, LifeInv, Forward
  <2>10. LifeOK(g)'
    BY <1>1, <2>1, <2>2, <2>3, <2>8, <2>9 DEF LifeOK
  <2>11. \A n \in Gens : /\ Active(n)' => Active(n)
                         /\ life'[n].status # "none" => life[n].status # "none"
    BY <1>5, <2>3 DEF Active
  <2>12. \A n \in Gens : NewestOK(n)'
    BY <2>11, NewestKept
  <2>13. SourceCmd'
    BY <2>1, <2>2, <2>3 DEF SourceCmd
  <2>14. QED
    BY <1>1, <2>2, <2>4, <2>7, <2>8, <2>10, <2>12, <2>13, SourceMoves DEF LifeInv, OthersHosts
<1>6. QED
  BY <1>4, <1>5 DEF ResumeBegin, ResumesFrom

(* Nothing was sealed: the source is started.                                 *)
LEMMA ResumeRestartStep == ASSUME Inv, ResumeRestart PROVE Inv'
<1>1. cmd[Source].op = "resume" /\ cmd[Source].pc = "restart"
  BY DEF ResumeRestart, Resuming
<1>2. PICK i \in Gens : /\ i = cmd[Source].id /\ Source \in Hosts
                        /\ life[i].status \in ResumesFrom
                        /\ ~Sealed(i) /\ ~life[i].proof
  BY <1>1, ResumesOwn
<1>3. UNCHANGED <<cfg, cloud, seals, last, bound, late, hosts, checks, backs, told, receipt>>
  BY DEF ResumeRestart, server, Ensured, EnsureFails
<1>4. cmd \in CmdsType /\ life \in LivesType /\ used \in UsedType
  BY DEF Inv, TypeInv
<1>5. cmd' \in CmdsType /\ OthersCmds(Source) /\ cmd'[Source].op = "none"
  BY <1>2, <1>4, ExitLemma DEF ResumeRestart
<1>6. used' \in UsedType
  BY <1>4, SpendLemma DEF ResumeRestart, EnsureFails, Fault
<1>7. SourceCmd'
  BY <1>5 DEF SourceCmd
<1>8. ASSUME NEW status \in {"ready", "recovery-failed"}, SetLife(i, status)
      PROVE  Inv'
  <2>1. status \in LifeStatus
    BY DEF LifeStatus
  <2>2. /\ life' \in LivesType /\ \A n \in Gens \ {i} : life'[n] = life[n]
        /\ life'[i].status = status /\ life'[i].proof = life[i].proof
    BY <1>4, <1>8, <2>1, SetLifeLemma
  <2>3. TypeInv'
    BY <1>3, <1>5, <1>6, <2>2 DEF Inv, TypeInv
  <2>4. ~Sealed(i)' /\ ~life'[i].proof /\ life[i].status # "none" /\ ~Active(i)'
    BY <1>2, <2>2 DEF Sealed, Active, ResumesFrom
  <2>5. QED
    BY <1>1, <1>2, <1>3, <1>5, <1>7, <2>2, <2>3, <2>4, CommandGoesOn DEF OthersHosts
<1>9. QED
  BY <1>2, <1>8 DEF ResumeRestart

(* The source is started once the proof is saved.                             *)
LEMMA ResumeEnsureStep == ASSUME Inv, ResumeEnsure PROVE Inv'
<1>1. cmd[Source].op = "resume" /\ cmd[Source].pc = "ensure"
  BY DEF ResumeEnsure, Resuming
<1>2. PICK i \in Gens : /\ i = cmd[Source].id /\ Source \in Hosts
                        /\ life[i].status = "resuming" /\ life[i].proof
  BY <1>1, ResumesOwn
<1>3. UNCHANGED <<cfg, cloud, seals, last, bound, late, hosts, life, checks, backs, told, receipt>>
  BY DEF ResumeEnsure, server, files, Ensured, EnsureFails
<1>4. cmd \in CmdsType /\ used \in UsedType /\ "proof" \in Pcs
  BY DEF Inv, TypeInv, Pcs
<1>5. used' \in UsedType
  BY <1>4, SpendLemma DEF ResumeEnsure, EnsureFails, Fault
<1>6. CASE Goto(Source, "proof")
  <2>1. /\ cmd' \in CmdsType /\ OthersCmds(Source)
        /\ cmd'[Source].op = "resume" /\ cmd'[Source].id = i /\ cmd'[Source].pc = "proof"
    BY <1>1, <1>2, <1>4, <1>6, GotoLemma
  <2>2. TypeInv'
    BY <1>3, <1>5, <2>1 DEF Inv, TypeInv
  <2>3. SourceCmd'
    BY <1>2, <1>3, <2>1 DEF SourceCmd
  <2>4. QED
    BY <1>1, <1>2, <1>3, <2>1, <2>2, <2>3, CommandGoesOn DEF OthersHosts
<1>7. CASE Exit(Source)
  <2>1. cmd' \in CmdsType /\ OthersCmds(Source) /\ cmd'[Source].op = "none"
    BY <1>2, <1>4, <1>7, ExitLemma
  <2>2. TypeInv'
    BY <1>3, <1>5, <2>1 DEF Inv, TypeInv
  <2>3. SourceCmd'
    BY <2>1 DEF SourceCmd
  <2>4. QED
    BY <1>1, <1>2, <1>3, <2>1, <2>2, <2>3, CommandGoesOn DEF OthersHosts
<1>8. QED
  BY <1>6, <1>7 DEF ResumeEnsure

(* The source has what was handed back: the lifecycle is over.                *)
LEMMA ResumeProofStep == ASSUME Inv, ResumeProof PROVE Inv'
<1>1. cmd[Source].op = "resume" /\ cmd[Source].pc = "proof"
  BY DEF ResumeProof, Resuming
<1>2. PICK i \in Gens : /\ i = cmd[Source].id /\ Source \in Hosts
                        /\ life[i].status = "resuming" /\ life[i].proof
  BY <1>1, ResumesOwn
<1>3. UNCHANGED <<cfg, cloud, seals, last, bound, late, hosts, checks, backs, told, receipt>>
  BY DEF ResumeProof, server
<1>4. cmd \in CmdsType /\ life \in LivesType /\ used \in UsedType
  BY DEF Inv, TypeInv
<1>5. used' \in UsedType
  BY <1>4, SpendLemma DEF ResumeProof, Fault
<1>6. cmd' \in CmdsType /\ OthersCmds(Source) /\ cmd'[Source].op = "none"
  BY <1>2, <1>4, ExitLemma DEF ResumeProof
<1>7. SourceCmd'
  BY <1>6 DEF SourceCmd
<1>8. CASE UNCHANGED life
  <2>1. TypeInv'
    BY <1>3, <1>5, <1>6, <1>8 DEF Inv, TypeInv
  <2>2. QED
    BY <1>1, <1>2, <1>3, <1>6, <1>7, <1>8, <2>1, CommandGoesOn DEF OthersHosts
<1>9. CASE life' = [life EXCEPT ![i] = [@ EXCEPT !.status = "ready", !.token = 0]]
  <2>1. PICK f : f = [life[i] EXCEPT !.status = "ready"]
    OBVIOUS
  <2>2. PICK k : k = [f EXCEPT !.token = 0]
    OBVIOUS
  <2>3. f \in LifeType /\ f.status = "ready" /\ f.proof = life[i].proof
    BY <1>4, <2>1 DEF LivesType, LifeType, LifeStatus
  <2>4. k \in LifeType /\ k.status = "ready" /\ k.proof = life[i].proof
    BY <2>2, <2>3 DEF LifeType
  <2>5. life' = [life EXCEPT ![i] = k]
    BY <1>4, <1>9, <2>1, <2>2 DEF LivesType
  <2>6. /\ life' \in LivesType /\ \A n \in Gens \ {i} : life'[n] = life[n]
        /\ life'[i].status = "ready"
    BY <1>4, <2>4, <2>5 DEF LivesType
  <2>7. TypeInv'
    BY <1>3, <1>5, <1>6, <2>6 DEF Inv, TypeInv
  <2>8. Forward
    BY <1>3, SealsFrame DEF Inv
  <2>9. \A n \in Gens \ {i} : LifeOK(n)' /\ (Opened(n) => Opened(n)')
    BY <1>1, <1>3, <2>6, <2>7, <2>8, NoneSealed, OthersLife
  <2>10. Gone(i)' /\ Opened(i)' /\ ~Sealed(i)'
    <3>1. Gone(i)
      BY <1>2 DEF Inv, LifeInv, LifeOK
    <3>2. QED
      BY <2>6, <2>8, <3>1 DEF Forward, Opened, Sealed
  <2>11. LifeOK(i)'
    BY <2>6, <2>10 DEF LifeOK
  <2>12. \A n \in Gens : /\ Active(n)' => Active(n)
                         /\ life'[n].status # "none" => life[n].status # "none"
    BY <1>2, <2>6 DEF Active
  <2>13. \A n \in Gens : NewestOK(n)'
    BY <2>12, NewestKept
  <2>14. QED
    BY <1>3, <1>6, <1>7, <2>7, <2>9, <2>10, <2>11, <2>13, SourceMoves DEF LifeInv, OthersHosts
<1>10. QED
  BY <1>2, <1>8, <1>9 DEF ResumeProof

(* The receipt is burned: ownership returns, if no destination has it.        *)
LEMMA ResumeBurnStep == ASSUME Inv, ResumeBurn PROVE Inv'
<1>1. cmd[Source].op = "resume" /\ cmd[Source].pc = "burn"
  BY DEF ResumeBurn, Resuming
<1>2. PICK i \in Gens : /\ i = cmd[Source].id /\ Source \in Hosts
                        /\ life[i].status = "resuming" /\ ~life[i].proof
  BY <1>1, ResumesOwn
<1>3. PICK out : out = resumeCheckpointSeal(seals[i], life[i].token, cloud)
  OBVIOUS
<1>4. UNCHANGED <<cfg, cloud, last, bound, late, hosts, checks, backs, told, receipt>>
  BY DEF ResumeBurn
<1>5. /\ cmd \in CmdsType /\ life \in LivesType /\ used \in UsedType /\ last \in Int
      /\ cloud \in StateType /\ seals \in [Gens -> SealType]
  BY DEF Inv, TypeInv
<1>6. /\ Kept(seals[i], out.seal)
      /\ out.seal.issued = seals[i].issued /\ out.seal.consumer = seals[i].consumer
      /\ out.seal.resumed # seals[i].resumed => seals[i].issued
      /\ out.code \in {"ok", "resume_conflict"} => out.seal.resumed # "no"
  BY <1>3, <1>5, ResumeLemma
<1>7. seals' = [seals EXCEPT ![i] = out.seal]
  BY <1>2, <1>3 DEF ResumeBurn, Apply
<1>8. /\ seals' \in [Gens -> SealType] /\ Forward
      /\ (\A n \in Gens : Opened(n) => Opened(n)') => SealInv'
  <2>1. /\ out.seal.issued => i <= last'
        /\ out.seal.consumer # NoOne => out.seal.issued
        /\ out.seal.resumed # "no" => out.seal.issued
    BY <1>4, <1>6 DEF Inv, SealInv
  <2>2. Gone(i) => out.seal.resumed # "no" \/ (~out.seal.issued /\ i <= last')
    BY <1>4, <1>6 DEF Gone, Kept
  <2>3. last' \in Int /\ last' >= last
    BY <1>4, <1>5
  <2>4. QED
    BY <1>6, <1>7, <2>1, <2>2, <2>3, Moved
<1>9. seals'[i] = out.seal
  BY <1>5, <1>7
<1>10. hosts[Source].daemon = "down" /\ i <= last /\ Sealed(i)
  BY <1>2 DEF Inv, LifeInv, LifeOK, Sealed
<1>11. \A n \in Gens \ {i} : Sealed(n) => life[n].proof
  BY <1>1, <1>2, IdleLemma DEF Inv, LifeInv, LifeOK
<1>12. used' \in UsedType
  BY <1>2, <1>3, <1>5, SpendLemma DEF ResumeBurn, Fault
<1>13. ASSUME cmd' \in CmdsType, OthersCmds(Source), SourceCmd', life' \in LivesType,
              \A n \in Gens \ {i} : life'[n] = life[n], LifeOK(i)', Opened(i)',
              life'[i].status # "none"
       PROVE  Inv'
  <2>1. TypeInv'
    BY <1>4, <1>8, <1>12, <1>13 DEF Inv, TypeInv
  <2>2. \A n \in Gens \ {i} : LifeOK(n)' /\ (Opened(n) => Opened(n)')
    BY <1>4, <1>8, <1>11, <1>13, <2>1, OthersLife
  <2>3. \A n \in Gens : /\ Active(n)' => Active(n)
                        /\ life'[n].status # "none" => life[n].status # "none"
    BY <1>2, <1>13 DEF Active
  <2>4. \A n \in Gens : NewestOK(n)'
    BY <2>3, NewestKept
  <2>5. SealInv'
    BY <1>8, <1>13, <2>2
  <2>6. \A d \in Dests : Quiet(d)
    BY <1>4, <1>13, CheckpointAssumption DEF Quiet, OthersCmds, Hosts
  <2>7. QED
    BY <1>4, <1>8, <1>13, <2>1, <2>2, <2>4, <2>5, <2>6, SourceSide DEF Inv, LifeInv
<1>14. CASE /\ out.code = "ok"
            /\ life' = [life EXCEPT ![i] = [@ EXCEPT !.proof = TRUE, !.at = out.seal.back]]
            /\ Goto(Source, "ensure")
  <2>1. PICK f : f = [life[i] EXCEPT !.proof = TRUE]
    OBVIOUS
  <2>2. PICK k : k = [f EXCEPT !.at = out.seal.back]
    OBVIOUS
  <2>3. f \in LifeType /\ f.status = "resuming" /\ f.proof
    BY <1>2, <1>5, <2>1 DEF LivesType, LifeType
  <2>4. out.seal.back \in StateType
    BY <1>6 DEF Kept, SealType
  <2>5. k \in LifeType /\ k.status = "resuming" /\ k.proof
    BY <2>2, <2>3, <2>4 DEF LifeType
  <2>6. life' = [life EXCEPT ![i] = k]
    BY <1>5, <1>14, <2>1, <2>2 DEF LivesType
  <2>7. /\ life' \in LivesType /\ \A n \in Gens \ {i} : life'[n] = life[n]
        /\ life'[i].status = "resuming" /\ life'[i].proof
    BY <1>5, <2>5, <2>6 DEF LivesType
  <2>8. "ensure" \in Pcs
    BY DEF Pcs
  <2>9. /\ cmd' \in CmdsType /\ OthersCmds(Source)
        /\ cmd'[Source].op = "resume" /\ cmd'[Source].id = i /\ cmd'[Source].pc = "ensure"
    BY <1>1, <1>2, <1>5, <1>14, <2>8, GotoLemma
  <2>10. Gone(i)' /\ Opened(i)'
    BY <1>6, <1>9, <1>14 DEF Gone, Opened
  <2>11. LifeOK(i)'
    BY <1>4, <1>10, <2>7, <2>10 DEF LifeOK
  <2>12. SourceCmd'
    BY <2>7, <2>9 DEF SourceCmd
  <2>13. QED
    BY <1>13, <2>7, <2>9, <2>10, <2>11, <2>12
<1>15. ASSUME Exit(Source) PROVE /\ cmd' \in CmdsType /\ OthersCmds(Source) /\ SourceCmd'
                                 /\ cmd'[Source] = Idle
  <2>1. /\ cmd' \in CmdsType /\ OthersCmds(Source)
        /\ cmd'[Source] = Idle /\ cmd'[Source].op = "none"
    BY <1>2, <1>5, <1>15, ExitLemma
  <2>2. QED
    BY <2>1 DEF SourceCmd
<1>16. CASE SetLife(i, "sealed") /\ Exit(Source)
  <2>1. "sealed" \in LifeStatus
    BY DEF LifeStatus
  <2>2. /\ life' \in LivesType /\ \A n \in Gens \ {i} : life'[n] = life[n]
        /\ life'[i].status = "sealed" /\ life'[i].proof = life[i].proof
    BY <1>5, <1>16, <2>1, SetLifeLemma
  <2>3. Sealed(i)' /\ Opened(i)'
    BY <2>2 DEF Sealed, Opened
  <2>4. LifeOK(i)'
    BY <1>2, <1>4, <1>10, <1>15, <1>16, <2>2, <2>3 DEF LifeOK
  <2>5. QED
    BY <1>13, <1>15, <1>16, <2>2, <2>3, <2>4
<1>17. CASE out.code = "resume_conflict" /\ SetLife(i, "ownership-conflict") /\ Exit(Source)
  <2>1. "ownership-conflict" \in LifeStatus
    BY DEF LifeStatus
  <2>2. /\ life' \in LivesType /\ \A n \in Gens \ {i} : life'[n] = life[n]
        /\ life'[i].status = "ownership-conflict" /\ life'[i].proof = life[i].proof
    BY <1>5, <1>17, <2>1, SetLifeLemma
  <2>3. ~Sealed(i)' /\ Gone(i)' /\ Opened(i)'
    BY <1>6, <1>9, <1>17, <2>2 DEF Sealed, Gone, Opened
  <2>4. LifeOK(i)'
    BY <1>2, <2>2, <2>3 DEF LifeOK
  <2>5. QED
    BY <1>13, <1>15, <1>17, <2>2, <2>3, <2>4
<1>18. CASE UNCHANGED life /\ Exit(Source)
  <2>1. Sealed(i)' /\ Opened(i)'
    BY <1>10, <1>18 DEF Sealed, Opened
  <2>2. LifeOK(i)'
    BY <1>2, <1>4, <1>10, <1>15, <1>18, <2>1 DEF LifeOK
  <2>3. QED
    BY <1>2, <1>5, <1>13, <1>15, <1>18, <2>1, <2>2
<1>19. QED
  BY <1>2, <1>3, <1>14, <1>16, <1>17, <1>18 DEF ResumeBurn
-----------------------------------------------------------------------------
(* The controller, time and the administrator.                                *)

(* A step that changes seals and receipts alone.                              *)
LEMMA SealsMove ==
    ASSUME Inv, Forward, (\A n \in Gens : Opened(n) => Opened(n)') => SealInv',
           seals' \in [Gens -> SealType], receipt' \in [Gens -> Dests \union {NoOne}],
           used' \in UsedType,
           \A d \in Dests, g \in Gens :
              receipt'[g] = d => receipt[g] = d \/ seals[g].consumer = d \/ Owned(d, g)',
           UNCHANGED <<cfg, cloud, last, late, hosts, life, backs, cmd, told>>
    PROVE  Inv'
<1>1. TypeInv'
  BY DEF Inv, TypeInv
<1>2. \A h \in Hosts : Quiet(h)
  BY DEF Quiet
<1>3. LifeInv' /\ SourceCmd' /\ SealInv'
  BY <1>1, <1>2, LifeFrame DEF Hosts, Forward
<1>4. ReceiptInv'
  BY DEF Inv, ReceiptInv, Forward, Pending
<1>5. BackInv'
  BY DEF Inv, BackInv, Forward
<1>6. DestInv'
  BY <1>2, DestFrame DEF DestInv, Hosts, Forward
<1>7. QED
  BY <1>1, <1>3, <1>4, <1>5, <1>6 DEF Inv

(* A destination consumes a seal whose token was told.                        *)
LEMMA ConsumeStep == ASSUME Inv, NEW d \in Dests, NEW g \in Gens, Consume(d, g) PROVE Inv'
<1>1. PICK out : out = consumeCheckpointSeal(seals[g], g, told[g], d, bound[d], cloud)
  OBVIOUS
<1>2. /\ seals \in [Gens -> SealType] /\ receipt \in [Gens -> Dests \union {NoOne}]
      /\ used \in UsedType /\ last \in Int
  BY DEF Inv, TypeInv
<1>3. /\ Kept(seals[g], out.seal)
      /\ out.seal.issued = seals[g].issued /\ out.seal.resumed = seals[g].resumed
      /\ out.code = "ok" => /\ out.seal.issued /\ out.seal.consumer = d
                            /\ ~out.seal.released /\ out.seal.resumed = "no"
      /\ out.code # "ok" => out.seal = seals[g]
  BY <1>1, <1>2, ConsumeLemma
<1>4. UNCHANGED <<cfg, cloud, last, late, hosts, life, checks, backs, cmd, told>>
  BY DEF Consume, files
<1>5. seals' = [seals EXCEPT ![g] = out.seal]
  BY <1>1 DEF Consume, Apply
<1>6. Opened(g)
  BY DEF Consume, Inv, LifeInv, LifeOK
<1>7. /\ seals[g].issued => g <= last
      /\ seals[g].consumer # NoOne => seals[g].issued
      /\ seals[g].resumed # "no" => seals[g].issued
  BY DEF Inv, SealInv
<1>8. /\ seals' \in [Gens -> SealType] /\ Forward
      /\ (\A n \in Gens : Opened(n) => Opened(n)') => SealInv'
  <2>1. /\ out.seal.issued => g <= last'
        /\ out.seal.consumer # NoOne => out.seal.issued
        /\ out.seal.resumed # "no" => out.seal.issued
    BY <1>3, <1>4, <1>7
  <2>2. Gone(g) => out.seal.resumed # "no" \/ (~out.seal.issued /\ g <= last')
    BY <1>3, <1>4 DEF Gone
  <2>3. last' \in Int /\ last' >= last
    BY <1>2, <1>4
  <2>4. out.seal.consumer = seals[g].consumer \/ (Opened(g) /\ ~out.seal.released /\ out.seal.resumed = "no")
    BY <1>3, <1>6
  <2>5. QED
    BY <1>3, <1>5, <2>1, <2>2, <2>3, <2>4, Moved
<1>9. used' \in UsedType
  BY <1>2, SpendLemma DEF Consume, Fault
<1>10. receipt' = receipt \/ (out.code = "ok" /\ receipt' = [receipt EXCEPT ![g] = d])
  BY <1>1, <1>2 DEF Consume
<1>11. out.code = "ok" => Owned(d, g)'
  BY <1>2, <1>3, <1>5 DEF Owned
<1>12. receipt' \in [Gens -> Dests \union {NoOne}]
  BY <1>2, <1>10
<1>13. \A e \in Dests, n \in Gens : receipt'[n] = e => receipt[n] = e \/ Owned(e, n)'
  BY <1>2, <1>10, <1>11
<1>14. QED
  BY <1>4, <1>8, <1>9, <1>12, <1>13, SealsMove

(* The receipt again, when the answer was lost.                               *)
LEMMA RecoverConsumeStep ==
    ASSUME Inv, NEW d \in Dests, NEW g \in Gens, RecoverConsume(d, g) PROVE Inv'
<1>1. UNCHANGED <<cfg, cloud, seals, last, bound, late, hosts, life, checks, backs, cmd, told, used>>
  BY DEF RecoverConsume, server, files
<1>2. receipt' = [receipt EXCEPT ![g] = d] /\ seals[g].consumer = d
  BY DEF RecoverConsume, recoverConsumed, Refused, Done
<1>3. /\ seals \in [Gens -> SealType] /\ receipt \in [Gens -> Dests \union {NoOne}]
      /\ used \in UsedType
  BY DEF Inv, TypeInv
<1>4. Forward /\ ((\A n \in Gens : Opened(n) => Opened(n)') => SealInv')
  BY <1>1, SealsFrame DEF Inv
<1>5. /\ receipt' \in [Gens -> Dests \union {NoOne}]
      /\ \A e \in Dests, n \in Gens : receipt'[n] = e => receipt[n] = e \/ seals[n].consumer = e
  BY <1>2, <1>3
<1>6. QED
  BY <1>1, <1>3, <1>4, <1>5, SealsMove

(* A seal expires.                                                            *)
LEMMA ExpireStep == ASSUME Inv, NEW g \in Gens, Expire(g) PROVE Inv'
<1>1. PICK s : s = [seals[g] EXCEPT !.expired = TRUE]
  OBVIOUS
<1>2. /\ seals \in [Gens -> SealType] /\ receipt \in [Gens -> Dests \union {NoOne}]
      /\ used \in UsedType /\ last \in Int
  BY DEF Inv, TypeInv
<1>3. /\ s \in SealType /\ s.issued = seals[g].issued /\ s.consumer = seals[g].consumer
      /\ s.resumed = seals[g].resumed /\ s.released = seals[g].released
  BY <1>1, <1>2 DEF SealType
<1>4. seals' = [seals EXCEPT ![g] = s]
  BY <1>1, <1>2 DEF Expire
<1>5. UNCHANGED <<cfg, cloud, last, bound, late, hosts, life, checks, backs, cmd, told, receipt, used>>
  BY DEF Expire, files
<1>6. Kept(seals[g], s)
  BY <1>3 DEF Kept
<1>7. /\ s.issued => g <= last'
      /\ s.consumer # NoOne => s.issued
      /\ s.resumed # "no" => s.issued
      /\ Gone(g) => s.resumed # "no" \/ (~s.issued /\ g <= last')
  BY <1>3, <1>5 DEF Inv, SealInv, Gone
<1>8. last' \in Int /\ last' >= last
  BY <1>2, <1>5
<1>9. /\ seals' \in [Gens -> SealType] /\ Forward
      /\ (\A n \in Gens : Opened(n) => Opened(n)') => SealInv'
  BY <1>3, <1>4, <1>6, <1>7, <1>8, Moved
<1>10. QED
  BY <1>2, <1>5, <1>9, SealsMove

(* An administrator vouches for the source.                                   *)
LEMMA ReconcileStep == ASSUME Inv, NEW g \in Gens, Reconcile(g) PROVE Inv'
<1>1. PICK out : out = reconcileCheckpointSealSource(seals[g], Status(seals[g]))
  OBVIOUS
<1>2. /\ seals \in [Gens -> SealType] /\ receipt \in [Gens -> Dests \union {NoOne}]
      /\ used \in UsedType /\ last \in Int
  BY DEF Inv, TypeInv
<1>3. /\ Kept(seals[g], out.seal)
      /\ out.seal.issued = seals[g].issued /\ out.seal.consumer = seals[g].consumer
      /\ out.seal.resumed # seals[g].resumed => seals[g].issued
  BY <1>1, <1>2, ReconcileLemma
<1>4. seals' = [seals EXCEPT ![g] = out.seal]
  BY <1>1 DEF Reconcile, Apply
<1>5. UNCHANGED <<cfg, cloud, last, late, hosts, life, checks, backs, cmd, told, receipt, used>>
  BY DEF Reconcile, files
<1>6. /\ out.seal.issued => g <= last'
      /\ out.seal.consumer # NoOne => out.seal.issued
      /\ out.seal.resumed # "no" => out.seal.issued
      /\ Gone(g) => out.seal.resumed # "no" \/ (~out.seal.issued /\ g <= last')
  BY <1>3, <1>5 DEF Inv, SealInv, Gone, Kept
<1>7. last' \in Int /\ last' >= last
  BY <1>2, <1>5
<1>8. /\ seals' \in [Gens -> SealType] /\ Forward
      /\ (\A n \in Gens : Opened(n) => Opened(n)') => SealInv'
  BY <1>3, <1>4, <1>6, <1>7, Moved
<1>9. QED
  BY <1>2, <1>5, <1>8, SealsMove

(* The record of a seal that was resumed is dropped: its generation stays     *)
(* used.                                                                      *)
LEMMA PurgeStep == ASSUME Inv, NEW g \in Gens, Purge(g) PROVE Inv'
<1>1. /\ seals \in [Gens -> SealType] /\ receipt \in [Gens -> Dests \union {NoOne}]
      /\ used \in UsedType
  BY DEF Inv, TypeInv
<1>2. PICK s : s = NoSeal
  OBVIOUS
<1>3. s \in SealType /\ ~s.issued /\ s.consumer = NoOne /\ s.resumed = "no"
  BY <1>2 DEF NoSeal, SealType, State, StateType
<1>4. seals[g].resumed # "no" /\ seals' = [seals EXCEPT ![g] = s]
  BY <1>2 DEF Purge
<1>5. UNCHANGED <<cfg, cloud, last, late, hosts, life, checks, backs, cmd, told, receipt, used>>
  BY DEF Purge, files
<1>6. g <= last
  BY <1>4 DEF Inv, SealInv
<1>7. seals' \in [Gens -> SealType] /\ seals'[g] = s /\ \A n \in Gens \ {g} : seals'[n] = seals[n]
  BY <1>1, <1>3, <1>4
<1>8. \A n \in Gens : Gone(n) => Gone(n)'
  BY <1>3, <1>5, <1>6, <1>7 DEF Gone
<1>9. \A d \in Dests, n \in Gens :
         /\ Owned(d, n) => Owned(d, n)'
         /\ seals'[n].consumer = d => seals[n].consumer = d
  BY <1>3, <1>4, <1>7, CheckpointAssumption DEF Owned
<1>10. Forward
  BY <1>5, <1>8, <1>9 DEF Forward, Inv, TypeInv
<1>11. SealInv'
  <2>1. \A n \in Gens : Opened(n) => Opened(n)'
    BY <1>5, <1>10, OpenedKept
  <2>2. QED
    BY <1>3, <1>5, <1>7, <2>1 DEF Inv, SealInv
<1>12. QED
  BY <1>1, <1>5, <1>7, <1>10, <1>11, SealsMove

(* A destination that has the receipt and has not handed back owns.           *)
LEMMA OwnsLemma ==
    ASSUME Inv, NEW d \in Dests, NEW g \in Gens, Owns(d, g)
    PROVE  Owned(d, g) /\ d \in Hosts
<1>1. receipt[g] = d /\ \A h \in Handbacks : ~Pending(h, d, g)
  BY DEF Owns, HandbacksOf, Pending
<1>2. QED
  BY <1>1 DEF Inv, ReceiptInv, Hosts
-----------------------------------------------------------------------------
(* The steps of a destination.                                                *)

(* A step of one destination's that leaves the seals as they are.             *)
LEMMA DestMoves ==
    ASSUME Inv, TypeInv', ReceiptInv', BackInv', NEW d \in Dests, DestCmd(d)',
           hosts'[d].daemon # "down" => \E g \in Gens : Owned(d, g),
           UNCHANGED <<seals, last, life, told>>, OthersHosts(d), OthersCmds(d),
           \A k \in Handbacks : backs'[k] = backs[k] \/ backs[k].host \in {d, NoOne}
    PROVE  Inv'
<1>1. Forward
  BY SealsFrame DEF Inv
<1>2. \A e \in Hosts \ {d} : Quiet(e)
  BY DEF Quiet, OthersHosts, OthersCmds
<1>3. Quiet(Source)
  BY <1>2, CheckpointAssumption DEF Hosts
<1>4. LifeInv' /\ SourceCmd' /\ SealInv'
  BY <1>1, <1>3, LifeFrame, SealsFrame DEF Forward, Inv
<1>5. ASSUME NEW e \in Dests
      PROVE  DestCmd(e)' /\ (hosts'[e].daemon # "down" => \E g \in Gens : Owned(e, g)')
  <2>1. CASE e = d
    BY <2>1 DEF Owned
  <2>2. CASE e # d
    <3>1. Quiet(e) /\ \A g \in Gens : Owned(e, g) => Owned(e, g)'
      BY <1>1, <1>2, <2>2 DEF Hosts, Forward
    <3>2. cmd[e].op = "handback" => backs'[cmd[e].id] = backs[cmd[e].id]
      <4>1. cmd[e].op = "handback" => cmd[e].id \in Handbacks /\ backs[cmd[e].id].host = e
        BY DEF Inv, DestInv, DestCmd
      <4>2. e \notin {d, NoOne}
        BY <2>2, CheckpointAssumption
      <4>3. QED
        BY <4>1, <4>2
    <3>3. QED
      BY <3>1, <3>2, DestFrame
  <2>3. QED
    BY <2>1, <2>2
<1>6. QED
  BY <1>4, <1>5 DEF Inv, DestInv

(* ... and the files of the handbacks, too.                                   *)
LEMMA DestGoesOn ==
    ASSUME Inv, TypeInv', NEW d \in Dests, DestCmd(d)',
           hosts'[d].daemon # "down" => \E g \in Gens : Owned(d, g),
           UNCHANGED <<seals, last, life, backs, told, receipt>>, OthersHosts(d), OthersCmds(d)
    PROVE  Inv'
<1>1. ReceiptInv' /\ BackInv'
  BY SealsFrame, ReceiptFrame DEF Inv
<1>2. QED
  BY <1>1, DestMoves

(* A destination's mount is started by its command, or by the controller.     *)
LEMMA StartDestSteps ==
    ASSUME Inv, NEW d \in Dests,
           StartMount(d) \/ \E g \in Gens : StartDestination(d, g)
    PROVE  Inv'
<1>1. d \in Hosts
  BY DEF Hosts
<1>2. /\ hosts' = Started(d)
      /\ UNCHANGED <<cfg, cloud, seals, last, bound, late, life, checks, backs, cmd, told, receipt, used>>
  BY DEF StartMount, StartDestination, server, files
<1>3. hosts' \in HostsType /\ OthersHosts(d)
  BY <1>1, <1>2, StartedLemma DEF Inv, TypeInv
<1>4. TypeInv'
  BY <1>2, <1>3 DEF Inv, TypeInv
<1>5. DestCmd(d)
  BY DEF Inv, DestInv
<1>6. CASE StartMount(d)
  <2>1. <<cmd[d].op, cmd[d].pc>> \in Ensuring
    BY <1>6 DEF StartMount
  <2>2. \/ cmd[d].op = "verify"
        \/ cmd[d].op = "handback" /\ cmd[d].pc \in {"recover", "unsaved"}
    BY <1>5, <2>1 DEF Ensuring, DestCmd
  <2>3. \E g \in Gens : Owned(d, g)
    <3>1. CASE cmd[d].op = "verify"
      BY <1>5, <3>1 DEF DestCmd
    <3>2. CASE cmd[d].op = "handback" /\ cmd[d].pc \in {"recover", "unsaved"}
      BY <1>5, <3>2 DEF DestCmd, Inv, BackInv
    <3>3. QED
      BY <2>2, <3>1, <3>2
  <2>4. DestCmd(d)'
    BY <1>2, <1>5, <2>2 DEF DestCmd, Owned
  <2>5. QED
    BY <1>2, <1>3, <1>4, <2>3, <2>4, DestGoesOn DEF OthersCmds
<1>7. ASSUME NEW g \in Gens, StartDestination(d, g) PROVE Inv'
  <2>1. Owned(d, g) /\ cmd[d] = Idle
    BY <1>7, OwnsLemma DEF StartDestination
  <2>2. DestCmd(d)'
    BY <1>2, <2>1, IdleLemma DEF DestCmd
  <2>3. QED
    BY <1>2, <1>3, <1>4, <2>1, <2>2, DestGoesOn DEF OthersCmds
<1>8. QED
  BY <1>6, <1>7

(* A verification begins: its destination owns.                               *)
LEMMA VerifyBeginStep ==
    ASSUME Inv, NEW d \in Dests, NEW g \in Gens, VerifyBegin(d, g) PROVE Inv'
<1>1. UNCHANGED <<cfg, cloud, seals, last, bound, late, hosts, life, backs, told, receipt, used>>
  BY DEF VerifyBegin, server
<1>2. Owned(d, g) /\ d \in Hosts
  BY OwnsLemma DEF VerifyBegin
<1>3. \E pc \in {"stop", "again", "check", "failed", "ensure"} :
         cmd' = [cmd EXCEPT ![d] = Run("verify", g, pc)]
  BY DEF VerifyBegin
<1>4. PICK pc \in Pcs : cmd' = [cmd EXCEPT ![d] = Run("verify", g, pc)]
  BY <1>3 DEF Pcs
<1>5. g \in Int /\ "verify" \in Ops /\ cmd \in CmdsType
  BY CheckpointAssumption DEF Ops, Inv, TypeInv
<1>6. /\ cmd' \in CmdsType /\ OthersCmds(d)
      /\ cmd'[d].op = "verify" /\ cmd'[d].id = g
  BY <1>2, <1>4, <1>5, RunLemma
<1>7. TypeInv'
  BY <1>1, <1>6 DEF Inv, TypeInv
<1>8. DestCmd(d)'
  BY <1>1, <1>2, <1>6 DEF DestCmd, Owned
<1>9. QED
  BY <1>1, <1>2, <1>6, <1>7, <1>8, DestGoesOn DEF OthersHosts

(* A verification goes on or ends.                                            *)
LEMMA VerifyGoesOn ==
    ASSUME Inv, NEW d \in Dests, cmd[d].op = "verify",
           (\E pc \in Pcs : Goto(d, pc)) \/ Exit(d),
           hosts' \in HostsType, OthersHosts(d), used' \in UsedType,
           UNCHANGED <<cfg, cloud, seals, last, late, life, backs, told, receipt>>
    PROVE  Inv'
<1>1. d \in Hosts /\ cmd \in CmdsType
  BY DEF Hosts, Inv, TypeInv
<1>2. PICK g \in Gens : g = cmd[d].id /\ Owned(d, g)
  BY DEF Inv, DestInv, DestCmd
<1>3. /\ cmd' \in CmdsType /\ OthersCmds(d)
      /\ cmd'[d].op = "none" \/ (cmd'[d].op = "verify" /\ cmd'[d].id = g)
  BY <1>1, <1>2, GotoLemma, ExitLemma
<1>4. TypeInv'
  BY <1>3 DEF Inv, TypeInv
<1>5. DestCmd(d)'
  BY <1>2, <1>3 DEF DestCmd, Owned
<1>6. QED
  BY <1>2, <1>3, <1>4, <1>5, DestGoesOn

(* The steps of a verification.                                               *)
LEMMA VerifySteps ==
    ASSUME Inv, NEW d \in Dests,
           VerifyAgain(d) \/ VerifyStop(d) \/ VerifyCheck(d) \/ VerifyEnd(d)
    PROVE  Inv'
<1>1. /\ d \in Hosts /\ hosts \in HostsType /\ used \in UsedType
      /\ {"stop", "check", "failed", "ensure", "diverged"} \subseteq Pcs
  BY DEF Hosts, Inv, TypeInv, Pcs
<1>2. CASE VerifyAgain(d)
  <2>1. /\ UNCHANGED <<cfg, cloud, seals, last, late, life, backs, told, receipt, hosts>>
        /\ cmd[d].op = "verify" /\ (Goto(d, "stop") \/ Exit(d)) /\ (UNCHANGED used \/ Fault)
    BY <1>2 DEF VerifyAgain, server, files, Ensured, EnsureFails, Verifying
  <2>2. used' \in UsedType
    BY <1>1, <2>1, SpendLemma DEF Fault
  <2>3. QED
    BY <1>1, <2>1, <2>2, VerifyGoesOn DEF OthersHosts
<1>3. CASE VerifyStop(d)
  <2>1. /\ UNCHANGED <<cfg, cloud, seals, last, late, life, backs, told, receipt>>
        /\ cmd[d].op = "verify" /\ (Goto(d, "check") \/ Goto(d, "failed"))
        /\ (UNCHANGED used \/ Fault)
        /\ (hosts' = Stopped(d) \/ hosts' = [hosts EXCEPT ![d].daemon = "stopping"])
    BY <1>3 DEF VerifyStop, server, StopTimesOut, Verifying
  <2>2. used' \in UsedType
    BY <1>1, <2>1, SpendLemma DEF Fault
  <2>3. hosts' \in HostsType /\ OthersHosts(d)
    BY <1>1, <2>1, StoppedLemma, StoppingLemma
  <2>4. QED
    BY <1>1, <2>1, <2>2, <2>3, VerifyGoesOn
<1>4. CASE VerifyCheck(d)
  <2>1. /\ UNCHANGED <<cfg, cloud, seals, last, late, life, backs, told, receipt, hosts>>
        /\ cmd[d].op = "verify"
        /\ (Goto(d, "ensure") \/ Goto(d, "diverged") \/ Goto(d, "failed"))
        /\ (UNCHANGED used \/ Fault)
    BY <1>4 DEF VerifyCheck, server, Verifying
  <2>2. used' \in UsedType
    BY <1>1, <2>1, SpendLemma DEF Fault
  <2>3. QED
    BY <1>1, <2>1, <2>2, VerifyGoesOn DEF OthersHosts
<1>5. CASE VerifyEnd(d)
  <2>1. /\ UNCHANGED <<cfg, cloud, seals, last, late, life, backs, told, receipt, hosts>>
        /\ cmd[d].op = "verify" /\ Exit(d) /\ (UNCHANGED used \/ Fault)
    BY <1>5 DEF VerifyEnd, server, Ensured, EnsureFails
  <2>2. used' \in UsedType
    BY <1>1, <2>1, SpendLemma DEF Fault
  <2>3. QED
    BY <1>1, <2>1, <2>2, VerifyGoesOn DEF OthersHosts
<1>6. QED
  BY <1>2, <1>3, <1>4, <1>5

(* What a handback's command knows of its file.                               *)
LEMMA HandsBack ==
    ASSUME Inv, NEW d \in Dests, cmd[d].op = "handback"
    PROVE  /\ d \in Hosts /\ cmd[d].id \in Handbacks
           /\ backs[cmd[d].id].host = d /\ backs[cmd[d].id].gen \in Gens
           /\ backs[cmd[d].id].status \in {"preparing", "handing-back"}
           /\ cmd[d].pc \in {"stop", "recover", "unsaved"} => Owned(d, backs[cmd[d].id].gen)
           /\ cmd[d].pc \in {"drain", "prepare", "commit", "finish"} =>
                 hosts[d].daemon = "down" /\ backs[cmd[d].id].status = "handing-back"
<1>1. DestCmd(d)
  BY DEF Inv, DestInv
<1>2. cmd[d].id \in Handbacks /\ backs[cmd[d].id].status \in {"preparing", "handing-back"}
  BY <1>1 DEF DestCmd
<1>3. backs[cmd[d].id].gen \in Gens
  BY <1>2 DEF Inv, BackInv
<1>4. QED
  BY <1>1, <1>2, <1>3 DEF DestCmd, Hosts

(* A handback's file is saved: it is given up by an owner only.               *)
LEMMA BackMoves ==
    ASSUME Inv, NEW d \in Dests, NEW h \in Handbacks, NEW status \in BackStatus,
           backs[h].host = d, backs[h].status \notin GivenUp, backs[h].status # "none",
           SetBack(h, status), status \notin {"none", "preparing"},
           status \in GivenUp => Owned(d, backs[h].gen),
           UNCHANGED <<seals, receipt>>
    PROVE  /\ backs' \in BacksType /\ ReceiptInv' /\ BackInv'
           /\ \A k \in Handbacks : backs'[k] = backs[k] \/ backs[k].host \in {d, NoOne}
           /\ backs'[h].status = status /\ backs'[h].host = d /\ backs'[h].gen = backs[h].gen
<1>1. /\ backs' \in BacksType /\ \A k \in Handbacks \ {h} : backs'[k] = backs[k]
      /\ backs'[h].status = status /\ backs'[h].host = d /\ backs'[h].gen = backs[h].gen
  BY SetBackLemma DEF Inv, TypeInv
<1>2. \A e \in Dests, n \in Gens : Owned(e, n) = Owned(e, n)'
  BY DEF Owned
<1>3. ReceiptInv'
  <2> SUFFICES ASSUME NEW e \in Dests, NEW n \in Gens,
                      receipt'[n] = e \/ seals'[n].consumer = e, ~Owned(e, n)'
               PROVE  \E k \in Handbacks : Pending(k, e, n)'
    BY DEF ReceiptInv
  <2>1. PICK k \in Handbacks : Pending(k, e, n)
    BY <1>2 DEF Inv, ReceiptInv
  <2>2. CASE k # h
    BY <1>1, <2>1, <2>2 DEF Pending
  <2>3. CASE k = h
    <3>1. e = d /\ n = backs[h].gen
      BY <2>1, <2>3 DEF Pending
    <3>2. status \notin GivenUp
      BY <1>2, <3>1
    <3>3. QED
      BY <1>1, <3>1, <3>2 DEF Pending
  <2>4. QED
    BY <2>2, <2>3
<1>4. BackInv'
  <2> SUFFICES ASSUME NEW k \in Handbacks
               PROVE  /\ backs'[k].status = "none" => backs'[k].host = NoOne
                      /\ backs'[k].status # "none" => backs'[k].host \in Dests /\ backs'[k].gen \in Gens
                      /\ backs'[k].status = "preparing" => Owned(backs[k].host, backs[k].gen)'
                      /\ \A j \in Handbacks \ {k} :
                            /\ backs'[k].host # NoOne /\ backs'[j].host = backs'[k].host
                            /\ backs'[j].gen = backs'[k].gen
                            => backs'[k].status \in GivenUp \/ backs'[j].status \in GivenUp
    BY DEF BackInv
  <2>1. /\ backs[k].status = "none" => backs[k].host = NoOne
        /\ backs[k].status # "none" => backs[k].host \in Dests /\ backs[k].gen \in Gens
        /\ backs[k].status = "preparing" => Owned(backs[k].host, backs[k].gen)
        /\ \A j \in Handbacks \ {k} :
              /\ backs[k].host # NoOne /\ backs[j].host = backs[k].host
              /\ backs[j].gen = backs[k].gen
              => backs[k].status \in GivenUp \/ backs[j].status \in GivenUp
    BY DEF Inv, BackInv
  <2>2. backs'[k].host = backs[k].host /\ backs'[k].gen = backs[k].gen
    BY <1>1
  <2>3. /\ backs'[k].status = "none" => backs'[k].host = NoOne
        /\ backs'[k].status # "none" => backs'[k].host \in Dests /\ backs'[k].gen \in Gens
    <3>1. CASE k = h
      BY <1>1, <2>1, <2>2, <3>1
    <3>2. CASE k # h
      BY <1>1, <2>1, <2>2, <3>2
    <3>3. QED
      BY <3>1, <3>2
  <2>4. backs'[k].status = "preparing" => Owned(backs[k].host, backs[k].gen)'
    <3>1. backs'[k].status = "preparing" => k # h /\ backs[k].status = "preparing"
      BY <1>1
    <3>2. QED
      BY <2>1, <2>2, <3>1 DEF Owned
  <2>5. \A j \in Handbacks : backs'[j].host = backs[j].host /\ backs'[j].gen = backs[j].gen
    BY <1>1
  <2>6. \A j \in Handbacks : backs[j].status \in GivenUp => backs'[j].status \in GivenUp
    BY <1>1
  <2>7. QED
    BY <2>1, <2>2, <2>3, <2>4, <2>5, <2>6
<1>5. QED
  BY <1>1, <1>3, <1>4

(* A handback's command saves its file and goes on or ends.                   *)
LEMMA BackGoesOn ==
    ASSUME Inv, NEW d \in Dests, NEW h \in Handbacks, NEW status \in BackStatus,
           backs[h].host = d, backs[h].status \notin GivenUp, backs[h].status # "none",
           SetBack(h, status), status \notin {"none", "preparing"},
           status \in GivenUp => Owned(d, backs[h].gen),
           cmd' \in CmdsType, OthersCmds(d), hosts' \in HostsType, OthersHosts(d),
           hosts'[d].daemon # "down" => hosts[d].daemon # "down",
           \/ cmd'[d].op = "none"
           \/ /\ cmd'[d].op = "handback" /\ cmd'[d].id = h
              /\ cmd'[d].pc \in {"drain", "prepare", "commit", "finish"}
              /\ hosts'[d].daemon = "down" /\ status = "handing-back",
           used' \in UsedType, cloud' \in StateType,
           UNCHANGED <<cfg, seals, last, late, life, told, receipt>>
    PROVE  Inv'
<1>1. /\ backs' \in BacksType /\ ReceiptInv' /\ BackInv'
      /\ \A k \in Handbacks : backs'[k] = backs[k] \/ backs[k].host \in {d, NoOne}
      /\ backs'[h].status = status /\ backs'[h].host = d
  BY BackMoves
<1>2. TypeInv'
  BY <1>1 DEF Inv, TypeInv
<1>3. DestCmd(d)'
  BY <1>1 DEF DestCmd
<1>4. hosts'[d].daemon # "down" => \E g \in Gens : Owned(d, g)
  BY DEF Inv, DestInv
<1>5. QED
  BY <1>1, <1>2, <1>3, <1>4, DestMoves

(* A handback begins: its destination owns, and has given up every other.     *)
LEMMA HandbackBeginStep ==
    ASSUME Inv, NEW d \in Dests, NEW g \in Gens, NEW h \in Handbacks, HandbackBegin(h, d, g)
    PROVE  Inv'
<1>1. UNCHANGED <<cfg, cloud, seals, last, bound, late, hosts, life, checks, told, receipt, used>>
  BY DEF HandbackBegin, server
<1>2. Owned(d, g) /\ d \in Hosts
  BY OwnsLemma DEF HandbackBegin
<1>3. backs[h].status = "none" /\ backs[h].host = NoOne
  BY DEF HandbackBegin, Inv, BackInv
<1>4. PICK b : b = [status |-> "preparing", gen |-> g, host |-> d]
  OBVIOUS
<1>5. b \in BackType /\ b.status = "preparing" /\ b.gen = g /\ b.host = d
  BY <1>4, CheckpointAssumption DEF BackType, BackStatus
<1>6. backs \in BacksType /\ backs' = [backs EXCEPT ![h] = b]
  BY <1>4 DEF HandbackBegin, Inv, TypeInv
<1>7. backs' \in BacksType /\ backs'[h] = b /\ \A k \in Handbacks \ {h} : backs'[k] = backs[k]
  BY <1>5, <1>6 DEF BacksType
<1>8. h \in Int /\ "handback" \in Ops /\ "stop" \in Pcs /\ cmd \in CmdsType
  BY CheckpointAssumption DEF Ops, Pcs, Inv, TypeInv
<1>9. /\ cmd' \in CmdsType /\ OthersCmds(d)
      /\ cmd'[d].op = "handback" /\ cmd'[d].id = h /\ cmd'[d].pc = "stop"
  BY <1>2, <1>8, RunLemma DEF HandbackBegin
<1>10. TypeInv'
  BY <1>1, <1>7, <1>9 DEF Inv, TypeInv
<1>11. \A e \in Dests, n \in Gens : Owned(e, n) = Owned(e, n)'
  BY <1>1 DEF Owned
<1>12. ReceiptInv'
  <2> SUFFICES ASSUME NEW e \in Dests, NEW n \in Gens,
                      receipt'[n] = e \/ seals'[n].consumer = e, ~Owned(e, n)'
               PROVE  \E k \in Handbacks : Pending(k, e, n)'
    BY DEF ReceiptInv
  <2>1. PICK k \in Handbacks : Pending(k, e, n)
    BY <1>1, <1>11 DEF Inv, ReceiptInv
  <2>2. k # h
    BY <1>3, <2>1, CheckpointAssumption DEF Pending
  <2>3. QED
    BY <1>7, <2>1, <2>2 DEF Pending
<1>13. BackInv'
  <2>1. \A k \in Handbacks \ {h} : backs[k].host = d /\ backs[k].gen = g => backs[k].status \in GivenUp
    BY DEF HandbackBegin, Owns, HandbacksOf
  <2>2. ASSUME NEW k \in Handbacks
        PROVE  /\ backs'[k].status = "none" => backs'[k].host = NoOne
               /\ backs'[k].status # "none" => backs'[k].host \in Dests /\ backs'[k].gen \in Gens
    BY <1>5, <1>7 DEF Inv, BackInv
  <2>3. ASSUME NEW k \in Handbacks, backs'[k].status = "preparing"
        PROVE  Owned(backs[k].host, backs[k].gen)'
    <3>1. CASE k = h
      BY <1>1, <1>2, <1>5, <1>7, <3>1 DEF Owned
    <3>2. CASE k # h
      <4>1. backs'[k] = backs[k] /\ Owned(backs[k].host, backs[k].gen)
        BY <1>7, <2>3, <3>2 DEF Inv, BackInv
      <4>2. QED
        BY <1>1, <4>1 DEF Owned
    <3>3. QED
      BY <3>1, <3>2
  <2>4. ASSUME NEW k \in Handbacks, NEW j \in Handbacks \ {k},
               backs'[k].host # NoOne, backs'[j].host = backs'[k].host,
               backs'[j].gen = backs'[k].gen
        PROVE  backs'[k].status \in GivenUp \/ backs'[j].status \in GivenUp
    <3>1. CASE k = h
      BY <1>5, <1>7, <2>1, <2>4, <3>1
    <3>2. CASE j = h
      BY <1>5, <1>7, <2>1, <2>4, <3>2
    <3>3. CASE k # h /\ j # h
      BY <1>7, <2>4, <3>3 DEF Inv, BackInv
    <3>4. QED
      BY <3>1, <3>2, <3>3
  <2>5. QED
    BY <2>2, <2>3, <2>4 DEF BackInv
<1>14. DestCmd(d)'
  BY <1>1, <1>2, <1>5, <1>7, <1>9 DEF DestCmd, Owned
<1>15. \A k \in Handbacks : backs'[k] = backs[k] \/ backs[k].host \in {d, NoOne}
  BY <1>3, <1>7
<1>16. QED
  BY <1>1, <1>2, <1>9, <1>10, <1>12, <1>13, <1>14, <1>15, DestMoves DEF OthersHosts

(* The same handback again.                                                   *)
LEMMA HandbackAgainStep == ASSUME Inv, NEW h \in Handbacks, HandbackAgain(h) PROVE Inv'
<1>1. UNCHANGED <<cfg, cloud, seals, last, bound, late, hosts, life, checks, told, receipt, used>>
  BY DEF HandbackAgain, server
<1>2. PICK d \in Dests : d = backs[h].host /\ d \in Hosts
  BY DEF HandbackAgain, Inv, BackInv, Hosts
<1>3. backs[h].status \notin GivenUp /\ backs[h].status # "none"
  BY DEF HandbackAgain, GivenUp
<1>4. /\ "handing-back" \in BackStatus /\ "handing-back" \notin GivenUp
      /\ hosts \in HostsType /\ used \in UsedType /\ cloud \in StateType
  BY DEF BackStatus, GivenUp, Inv, TypeInv
<1> h \in Int /\ "handback" \in Ops /\ "stop" \in Pcs /\ "drain" \in Pcs /\ cmd \in CmdsType
  BY CheckpointAssumption DEF Ops, Pcs, Inv, TypeInv
<1>5. CASE /\ hosts[d].daemon = "down" /\ SetBack(h, "handing-back")
           /\ cmd' = [cmd EXCEPT ![d] = Run("handback", h, "drain")]
  <2>1. /\ cmd' \in CmdsType /\ OthersCmds(d)
        /\ cmd'[d].op = "handback" /\ cmd'[d].id = h /\ cmd'[d].pc = "drain"
    <3>1. d \in Hosts /\ cmd' = [cmd EXCEPT ![d] = Run("handback", h, "drain")]
      BY <1>2, <1>5
    <3>2. QED
      BY <3>1, RunLemma
  <2>2. QED
    BY <1>1, <1>2, <1>3, <1>4, <1>5, <2>1, BackGoesOn DEF OthersHosts
<1>6. CASE /\ backs[h].status = "preparing" /\ UNCHANGED backs
           /\ cmd' = [cmd EXCEPT ![d] = Run("handback", h, "stop")]
  <2>1. /\ cmd' \in CmdsType /\ OthersCmds(d)
        /\ cmd'[d].op = "handback" /\ cmd'[d].id = h /\ cmd'[d].pc = "stop"
    <3>1. d \in Hosts /\ cmd' = [cmd EXCEPT ![d] = Run("handback", h, "stop")]
      BY <1>2, <1>6
    <3>2. QED
      BY <3>1, RunLemma
  <2>2. Owned(d, backs[h].gen) /\ backs[h].gen \in Gens
    BY <1>2, <1>6 DEF Inv, BackInv
  <2>3. TypeInv'
    BY <1>1, <1>6, <2>1 DEF Inv, TypeInv
  <2>4. DestCmd(d)'
    BY <1>1, <1>2, <1>6, <2>1, <2>2 DEF DestCmd, Owned
  <2>5. QED
    BY <1>1, <1>6, <2>1, <2>2, <2>3, <2>4, DestGoesOn DEF OthersHosts
<1>7. QED
  BY <1>2, <1>5, <1>6 DEF HandbackAgain

(* The destination is stopped, or does not stop in time, or the file that     *)
(* says so is not saved.                                                      *)
LEMMA HandbackStopStep == ASSUME Inv, NEW d \in Dests, HandbackStop(d) PROVE Inv'
<1>1. cmd[d].op = "handback" /\ cmd[d].pc = "stop"
  BY DEF HandbackStop, Returning
<1>2. PICK h \in Handbacks : /\ h = cmd[d].id /\ d \in Hosts /\ backs[h].host = d
                             /\ backs[h].gen \in Gens /\ Owned(d, backs[h].gen)
                             /\ backs[h].status \in {"preparing", "handing-back"}
  BY <1>1, HandsBack
<1>3. UNCHANGED <<cfg, cloud, seals, last, bound, late, life, checks, told, receipt>>
  BY DEF HandbackStop, server
<1>4. /\ {"drain", "recover", "unsaved"} \subseteq Pcs /\ cmd \in CmdsType
      /\ "handing-back" \in BackStatus /\ "handing-back" \notin GivenUp
      /\ hosts \in HostsType /\ used \in UsedType /\ cloud \in StateType
  BY DEF Pcs, BackStatus, GivenUp, Inv, TypeInv
<1>5. CASE /\ hosts' = Stopped(d) /\ SetBack(h, "handing-back")
           /\ Goto(d, "drain") /\ UNCHANGED used
  <2>1. /\ cmd' \in CmdsType /\ OthersCmds(d)
        /\ cmd'[d].op = "handback" /\ cmd'[d].id = h /\ cmd'[d].pc = "drain"
    BY <1>1, <1>2, <1>4, <1>5, GotoLemma
  <2>2. hosts' \in HostsType /\ hosts'[d].daemon = "down" /\ OthersHosts(d)
    BY <1>2, <1>4, <1>5, StoppedLemma
  <2>3. backs[h].status \notin GivenUp /\ backs[h].status # "none"
    BY <1>2 DEF GivenUp
  <2>4. QED
    BY <1>2, <1>3, <1>4, <1>5, <2>1, <2>2, <2>3, BackGoesOn
<1>6. ASSUME NEW pc \in {"recover", "unsaved"}, Goto(d, pc), UNCHANGED backs, Fault,
             hosts' = Stopped(d) \/ hosts' = [hosts EXCEPT ![d].daemon = "stopping"]
      PROVE  Inv'
  <2>1. /\ cmd' \in CmdsType /\ OthersCmds(d)
        /\ cmd'[d].op = "handback" /\ cmd'[d].id = h /\ cmd'[d].pc = pc
    BY <1>1, <1>2, <1>4, <1>6, GotoLemma
  <2>2. hosts' \in HostsType /\ OthersHosts(d)
    BY <1>2, <1>4, <1>6, StoppedLemma, StoppingLemma
  <2>3. used' \in UsedType
    BY <1>4, <1>6, SpendLemma DEF Fault
  <2>4. TypeInv'
    BY <1>3, <1>6, <2>1, <2>2, <2>3 DEF Inv, TypeInv
  <2>5. DestCmd(d)'
    BY <1>2, <1>3, <1>6, <2>1 DEF DestCmd, Owned
  <2>6. QED
    BY <1>2, <1>3, <1>6, <2>1, <2>2, <2>4, <2>5, DestGoesOn
<1>7. QED
  BY <1>2, <1>5, <1>6 DEF HandbackStop, StopTimesOut

(* A handback whose end is not known leaves the destination stopped.          *)
LEMMA UnknownStep ==
    ASSUME Inv, NEW d \in Dests, cmd[d].op = "handback",
           cmd[d].pc \in {"drain", "prepare", "commit", "finish"}, Unknown(d),
           used' \in UsedType, UNCHANGED <<cfg, cloud, seals, last, late, hosts, life, told, receipt>>
    PROVE  Inv'
<1>1. PICK h \in Handbacks : /\ h = cmd[d].id /\ d \in Hosts /\ backs[h].host = d
                             /\ backs[h].status = "handing-back"
  BY HandsBack
<1>2. /\ "handback-unknown" \in BackStatus /\ "handback-unknown" \notin GivenUp
      /\ backs[h].status \notin GivenUp /\ backs[h].status # "none"
  BY <1>1 DEF BackStatus, GivenUp
<1>3. SetBack(h, "handback-unknown") /\ Exit(d)
  BY <1>1 DEF Unknown
<1>4. cmd \in CmdsType /\ hosts \in HostsType /\ cloud \in StateType
  BY DEF Inv, TypeInv
<1>5. cmd' \in CmdsType /\ OthersCmds(d) /\ cmd'[d].op = "none"
  BY <1>1, <1>3, <1>4, ExitLemma
<1>6. hosts' \in HostsType /\ cloud' \in StateType /\ OthersHosts(d)
  BY <1>4 DEF OthersHosts
<1>7. QED
  BY <1>1, <1>2, <1>3, <1>5, <1>6, BackGoesOn

(* The destination is drained and scanned.                                    *)
LEMMA HandbackDrainStep == ASSUME Inv, NEW d \in Dests, HandbackDrain(d) PROVE Inv'
<1>1. cmd[d].op = "handback" /\ cmd[d].pc = "drain"
  BY DEF HandbackDrain, Returning
<1>2. PICK h \in Handbacks : /\ h = cmd[d].id /\ d \in Hosts /\ backs[h].host = d
                             /\ backs[h].status = "handing-back" /\ hosts[d].daemon = "down"
  BY <1>1, HandsBack
<1>3. UNCHANGED <<cfg, seals, last, bound, late, life, checks, told, receipt>>
  BY DEF HandbackDrain
<1>4. cmd \in CmdsType /\ hosts \in HostsType /\ cloud \in StateType /\ used \in UsedType
  BY DEF Inv, TypeInv
<1>5. CASE /\ Drain(d) /\ UNCHANGED <<backs, used>>
           /\ cmd' = [cmd EXCEPT ![d].pc = "prepare", ![d].scan = hosts[d].local]
  <2>1. "prepare" \in Pcs /\ hosts[d].local \in SUBSET Int
    BY <1>2, <1>4 DEF Pcs, HostsType, HostType
  <2>2. /\ hosts' \in HostsType /\ cloud' \in StateType /\ OthersHosts(d)
        /\ hosts'[d].daemon = "down"
    BY <1>2, <1>4, <1>5, DrainLemma
  <2>3. /\ cmd' \in CmdsType /\ OthersCmds(d)
        /\ cmd'[d].op = "handback" /\ cmd'[d].id = h /\ cmd'[d].pc = "prepare"
    BY <1>1, <1>2, <1>4, <1>5, <2>1, ScanLemma
  <2>4. TypeInv'
    BY <1>3, <1>5, <2>2, <2>3 DEF Inv, TypeInv
  <2>5. DestCmd(d)'
    BY <1>2, <1>5, <2>2, <2>3 DEF DestCmd
  <2>6. QED
    BY <1>3, <1>5, <2>2, <2>3, <2>4, <2>5, DestGoesOn
<1>6. CASE Fault /\ Unknown(d) /\ UNCHANGED <<cloud, hosts>>
  <2>1. used' \in UsedType
    BY <1>4, <1>6, SpendLemma DEF Fault
  <2>2. QED
    BY <1>1, <1>3, <1>6, <2>1, UnknownStep
<1>7. QED
  BY <1>5, <1>6 DEF HandbackDrain

(* The file that says the destination is released.                            *)
LEMMA HandbackFinishStep == ASSUME Inv, NEW d \in Dests, HandbackFinish(d) PROVE Inv'
<1>1. cmd[d].op = "handback" /\ cmd[d].pc = "finish"
  BY DEF HandbackFinish, Returning
<1>2. PICK h \in Handbacks : /\ h = cmd[d].id /\ d \in Hosts /\ backs[h].host = d
                             /\ backs[h].status = "handing-back" /\ hosts[d].daemon = "down"
  BY <1>1, HandsBack
<1>3. UNCHANGED <<cfg, cloud, seals, last, bound, late, hosts, life, checks, told, receipt>>
  BY DEF HandbackFinish, server
<1>4. cmd \in CmdsType /\ hosts \in HostsType /\ cloud \in StateType /\ used \in UsedType
  BY DEF Inv, TypeInv
<1>5. used' \in UsedType
  BY <1>4, SpendLemma DEF HandbackFinish, Fault
<1>6. CASE SetBack(h, "released") /\ Exit(d)
  <2>1. /\ "released" \in BackStatus /\ "released" \notin GivenUp
        /\ backs[h].status \notin GivenUp /\ backs[h].status # "none"
    BY <1>2 DEF BackStatus, GivenUp
  <2>2. cmd' \in CmdsType /\ OthersCmds(d) /\ cmd'[d].op = "none"
    BY <1>2, <1>4, <1>6, ExitLemma
  <2>3. hosts' \in HostsType /\ cloud' \in StateType /\ OthersHosts(d)
    BY <1>3, <1>4 DEF OthersHosts
  <2>4. QED
    BY <1>2, <1>3, <1>5, <1>6, <2>1, <2>2, <2>3, BackGoesOn
<1>7. CASE Unknown(d)
  BY <1>1, <1>3, <1>5, <1>7, UnknownStep
<1>8. CASE Exit(d) /\ UNCHANGED backs
  <2>1. cmd' \in CmdsType /\ OthersCmds(d) /\ cmd'[d] = Idle
    BY <1>2, <1>4, <1>8, ExitLemma
  <2>2. TypeInv'
    BY <1>3, <1>5, <1>8, <2>1 DEF Inv, TypeInv
  <2>3. \A k \in Hosts : Quiet(k)
    BY <1>3, <2>1 DEF Quiet, OthersCmds
  <2>4. QED
    BY <1>3, <1>8, <2>2, <2>3, StillStep
<1>9. QED
  BY <1>2, <1>6, <1>7, <1>8 DEF HandbackFinish

(* The handback was refused, or not asked for: its destination still owns.    *)
LEMMA HandbackRecoverStep == ASSUME Inv, NEW d \in Dests, HandbackRecover(d) PROVE Inv'
<1>1. cmd[d].op = "handback" /\ cmd[d].pc \in {"recover", "unsaved"}
  BY DEF HandbackRecover, Returning
<1>2. PICK h \in Handbacks : /\ h = cmd[d].id /\ d \in Hosts /\ backs[h].host = d
                             /\ backs[h].status \in {"preparing", "handing-back"}
                             /\ Owned(d, backs[h].gen)
  BY <1>1, HandsBack
<1>3. UNCHANGED <<cfg, cloud, seals, last, bound, late, hosts, life, checks, told, receipt>>
  BY DEF HandbackRecover, server, Ensured, EnsureFails
<1>4. cmd \in CmdsType /\ hosts \in HostsType /\ cloud \in StateType /\ used \in UsedType
  BY DEF Inv, TypeInv
<1>5. used' \in UsedType
  BY <1>4, SpendLemma DEF HandbackRecover, EnsureFails, Fault
<1>6. cmd' \in CmdsType /\ OthersCmds(d) /\ cmd'[d] = Idle /\ cmd'[d].op = "none"
  BY <1>2, <1>4, ExitLemma DEF HandbackRecover
<1>7. ASSUME NEW status \in GivenUp, SetBack(h, status) PROVE Inv'
  <2>1. /\ status \in BackStatus /\ status \notin {"none", "preparing"}
        /\ backs[h].status \notin GivenUp /\ backs[h].status # "none"
    BY <1>2 DEF BackStatus, GivenUp
  <2>2. hosts' \in HostsType /\ cloud' \in StateType /\ OthersHosts(d)
    BY <1>3, <1>4 DEF OthersHosts
  <2>3. QED
    BY <1>2, <1>3, <1>5, <1>6, <1>7, <2>1, <2>2, BackGoesOn
<1>8. CASE UNCHANGED backs
  <2>1. TypeInv'
    BY <1>3, <1>5, <1>6, <1>8 DEF Inv, TypeInv
  <2>2. \A k \in Hosts : Quiet(k)
    BY <1>3, <1>6 DEF Quiet, OthersCmds
  <2>3. QED
    BY <1>3, <1>8, <2>1, <2>2, StillStep
<1>9. QED
  BY <1>2, <1>7, <1>8 DEF HandbackRecover, GivenUp

(* The one step that may end a destination's ownership: its daemon is down,   *)
(* and its handback's file says that it is being handed back.                 *)
LEMMA CallMoves ==
    ASSUME Inv, NEW d \in Dests, NEW h \in Handbacks, NEW g \in Gens, NEW s \in SealType,
           h = cmd[d].id, cmd[d].op = "handback", cmd[d].pc \in {"prepare", "commit"},
           g = backs[h].gen, seals' = [seals EXCEPT ![g] = s],
           s.issued = seals[g].issued, s.consumer = seals[g].consumer,
           s.resumed = seals[g].resumed, seals[g].consumer # d => s = seals[g],
           cmd' \in CmdsType, OthersCmds(d), DestCmd(d)', used' \in UsedType,
           backs' \in BacksType, \A k \in Handbacks \ {h} : backs'[k] = backs[k],
           backs'[h].host = d, backs'[h].gen = g,
           backs'[h].status \in {"handing-back", "handback-unknown"},
           UNCHANGED <<cfg, cloud, last, late, hosts, life, told, receipt>>
    PROVE  Inv'
<1>1. /\ backs[h].host = d /\ backs[h].status = "handing-back" /\ hosts[d].daemon = "down"
      /\ d # NoOne /\ backs[h].status \notin GivenUp
      /\ backs'[h].status \notin GivenUp \union {"none", "preparing"}
  BY HandsBack, CheckpointAssumption DEF GivenUp
<1>2. seals \in [Gens -> SealType]
  BY DEF Inv, TypeInv
<1>3. /\ seals' \in [Gens -> SealType] /\ seals'[g] = s
      /\ \A n \in Gens \ {g} : seals'[n] = seals[n]
  BY <1>2
<1>4. TypeInv'
  BY <1>3 DEF Inv, TypeInv
<1>5. \A n \in Gens : /\ seals'[n].issued = seals[n].issued
                      /\ seals'[n].consumer = seals[n].consumer
                      /\ seals'[n].resumed = seals[n].resumed
  BY <1>3
<1>6. \A n \in Gens : Gone(n) = Gone(n)'
  BY SMTT(30), <1>5 DEF Gone
<1>7. ASSUME NEW e \in Dests, NEW n \in Gens, e # d \/ n # g, Owned(e, n) PROVE Owned(e, n)'
  BY <1>3, <1>7 DEF Owned
<1>8. \A k \in Hosts \ {d} : Quiet(k)
  BY DEF Quiet, OthersCmds
<1>9. last' >= last
  BY SMTT(30) DEF Inv, TypeInv
<1>10. LifeInv' /\ SourceCmd' /\ \A n \in Gens : Opened(n) => Opened(n)'
  <2>1. Quiet(Source)
    BY <1>8, CheckpointAssumption DEF Hosts
  <2>2. QED
    BY <1>4, <1>6, <1>9, <2>1, LifeFrame
<1>11. SealInv'
  BY SMTT(30), <1>5, <1>10 DEF Inv, SealInv
<1>12. ReceiptInv'
  <2> SUFFICES ASSUME NEW e \in Dests, NEW n \in Gens,
                      receipt'[n] = e \/ seals'[n].consumer = e, ~Owned(e, n)'
               PROVE  \E k \in Handbacks : Pending(k, e, n)'
    BY DEF ReceiptInv
  <2>1. CASE e = d /\ n = g
    BY <1>1, <2>1 DEF Pending
  <2>2. CASE e # d \/ n # g
    <3>1. ~Owned(e, n)
      BY <1>7, <2>2
    <3>2. PICK k \in Handbacks : Pending(k, e, n)
      BY <1>5, <3>1 DEF Inv, ReceiptInv
    <3>3. k # h
      BY <1>1, <2>2, <3>2 DEF Pending
    <3>4. QED
      BY <3>2, <3>3 DEF Pending
  <2>3. QED
    BY <2>1, <2>2
<1>13. BackInv'
  <2>1. \A k \in Handbacks : backs'[k].host = backs[k].host /\ backs'[k].gen = backs[k].gen
    BY <1>1
  <2>2. \A k \in Handbacks : backs[k].status \in GivenUp => backs'[k].status \in GivenUp
    BY <1>1
  <2>3. ASSUME NEW k \in Handbacks, backs'[k].status = "preparing"
        PROVE  Owned(backs[k].host, backs[k].gen)'
    <3>1. k # h /\ backs[k].status = "preparing" /\ backs'[k] = backs[k]
      BY <1>1, <2>3
    <3>2. PICK e \in Dests, n \in Gens : e = backs[k].host /\ n = backs[k].gen /\ Owned(e, n)
      BY <3>1 DEF Inv, BackInv
    <3>3. e # d \/ n # g
      BY SMTT(30), <1>1, <3>1, <3>2 DEF Inv, BackInv, GivenUp
    <3>4. Owned(e, n)'
      BY <1>7, <3>2, <3>3
    <3>5. QED
      BY <3>1, <3>2, <3>4
  <2>4. ASSUME NEW k \in Handbacks
        PROVE  /\ backs'[k].status = "none" => backs'[k].host = NoOne
               /\ backs'[k].status # "none" => backs'[k].host \in Dests /\ backs'[k].gen \in Gens
    <3>1. CASE k = h
      BY <1>1, <3>1
    <3>2. CASE k # h
      BY <3>2 DEF Inv, BackInv
    <3>3. QED
      BY <3>1, <3>2
  <2>5. ASSUME NEW k \in Handbacks, NEW j \in Handbacks \ {k},
               backs'[k].host # NoOne, backs'[j].host = backs'[k].host,
               backs'[j].gen = backs'[k].gen
        PROVE  backs'[k].status \in GivenUp \/ backs'[j].status \in GivenUp
    <3>1. backs[k].status \in GivenUp \/ backs[j].status \in GivenUp
      BY <2>1, <2>5 DEF Inv, BackInv
    <3>2. QED
      BY <2>2, <3>1
  <2>6. QED
    BY <2>3, <2>4, <2>5 DEF BackInv
<1>14. ASSUME NEW e \in Dests
       PROVE  DestCmd(e)' /\ (hosts'[e].daemon # "down" => \E n \in Gens : Owned(e, n)')
  <2>1. CASE e = d
    BY <1>1, <2>1
  <2>2. CASE e # d
    <3>1. Quiet(e) /\ \A n \in Gens : Owned(e, n) => Owned(e, n)'
      BY <1>7, <1>8, <2>2 DEF Hosts
    <3>2. cmd[e].op = "handback" => backs'[cmd[e].id] = backs[cmd[e].id]
      <4>1. cmd[e].op = "handback" => cmd[e].id \in Handbacks /\ backs[cmd[e].id].host = e
        BY DEF Inv, DestInv, DestCmd
      <4>2. QED
        BY <1>1, <2>2, <4>1
    <3>3. QED
      BY <3>1, <3>2, DestFrame
  <2>3. QED
    BY <2>1, <2>2
<1>15. QED
  BY <1>4, <1>10, <1>11, <1>12, <1>13, <1>14 DEF Inv, DestInv

(* HandbackCheckpointSeal: answered, refused, or unanswered.                  *)
LEMMA HandbackCallStep ==
    ASSUME Inv, NEW d \in Dests, NEW phase \in {"prepare", "commit"},
           Returning(d, phase), HandbackCall(d, phase)
    PROVE  Inv'
<1>1. cmd[d].op = "handback" /\ cmd[d].pc \in {"prepare", "commit"}
  BY DEF Returning
<1>2. PICK h \in Handbacks : /\ h = cmd[d].id /\ d \in Hosts /\ backs[h].host = d
                             /\ backs[h].gen \in Gens
                             /\ backs[h].status = "handing-back" /\ hosts[d].daemon = "down"
  BY <1>1, HandsBack
<1>3. PICK g \in Gens : g = backs[h].gen
  BY <1>2
<1>4. /\ cmd \in CmdsType /\ used \in UsedType /\ cloud \in StateType
      /\ seals[g] \in SealType /\ backs \in BacksType
  BY DEF Inv, TypeInv
<1>5. cmd[d].scan \in SUBSET Int
  BY <1>2, <1>4 DEF CmdsType, CmdType
<1>6. PICK out : out = handbackCheckpointSeal(seals[g], d, phase, h, cmd[d].scan, cloud)
  OBVIOUS
<1>7. /\ out.seal \in SealType
      /\ out.seal.issued = seals[g].issued /\ out.seal.consumer = seals[g].consumer
      /\ out.seal.resumed = seals[g].resumed
      /\ seals[g].consumer # d => out.seal = seals[g]
      /\ out.code = "diverged" => /\ out.seal = seals[g] /\ seals[g].consumer = d
                                  /\ ~seals[g].released /\ seals[g].resumed = "no"
  BY <1>4, <1>5, <1>6, HandbackLemma
<1>8. /\ seals' = [seals EXCEPT ![g] = out.seal]
      /\ \/ UNCHANGED used \/ Fault
      /\ \/ UNCHANGED backs /\ (Goto(d, "finish") \/ Goto(d, "commit") \/ UNCHANGED cmd)
         \/ UNCHANGED backs /\ out.code = "diverged" /\ Goto(d, "recover")
         \/ Unknown(d)
  BY <1>2, <1>3, <1>6 DEF HandbackCall, Apply, Definitive
<1>9. UNCHANGED <<cfg, cloud, last, bound, late, hosts, life, checks, told, receipt>>
  BY DEF HandbackCall
<1>10. used' \in UsedType
  BY <1>4, <1>8, SpendLemma DEF Fault
<1>11. "finish" \in Pcs /\ "commit" \in Pcs /\ "recover" \in Pcs
  BY DEF Pcs
<1>12. ASSUME cmd' \in CmdsType, OthersCmds(d), DestCmd(d)', backs' \in BacksType,
              \A k \in Handbacks \ {h} : backs'[k] = backs[k],
              backs'[h].host = d, backs'[h].gen = g,
              backs'[h].status \in {"handing-back", "handback-unknown"}
       PROVE  Inv'
  BY <1>1, <1>2, <1>3, <1>7, <1>8, <1>9, <1>10, <1>12, CallMoves
<1>13. CASE UNCHANGED backs /\ (Goto(d, "finish") \/ Goto(d, "commit") \/ UNCHANGED cmd)
  <2>1. /\ cmd' \in CmdsType /\ OthersCmds(d)
        /\ cmd'[d].op = "handback" /\ cmd'[d].id = h
        /\ cmd'[d].pc \in {"prepare", "commit", "finish"}
    <3>1. CASE UNCHANGED cmd
      BY <1>1, <1>2, <1>4, <3>1 DEF OthersCmds
    <3>2. CASE Goto(d, "finish")
      BY <1>1, <1>2, <1>4, <1>11, <3>2, GotoLemma
    <3>3. CASE Goto(d, "commit")
      BY <1>1, <1>2, <1>4, <1>11, <3>3, GotoLemma
    <3>4. QED
      BY <1>13, <3>1, <3>2, <3>3
  <2>2. DestCmd(d)'
    BY <1>2, <1>9, <1>13, <2>1 DEF DestCmd
  <2>3. QED
    BY <1>2, <1>3, <1>4, <1>12, <1>13, <2>1, <2>2
<1>14. CASE UNCHANGED backs /\ out.code = "diverged" /\ Goto(d, "recover")
  <2>1. /\ cmd' \in CmdsType /\ OthersCmds(d)
        /\ cmd'[d].op = "handback" /\ cmd'[d].id = h /\ cmd'[d].pc = "recover"
    BY <1>1, <1>2, <1>4, <1>11, <1>14, GotoLemma
  <2>2. seals'[g] = seals[g] /\ Owned(d, g)
    BY <1>7, <1>8, <1>14 DEF Owned, Inv, TypeInv
  <2>3. Owned(d, g)'
    BY <2>2 DEF Owned
  <2>4. backs'[cmd'[d].id].gen = g /\ backs'[cmd'[d].id].host = d
        /\ backs'[cmd'[d].id].status = "handing-back"
    BY <1>2, <1>3, <1>14, <2>1
  <2>5. DestCmd(d)'
    BY <2>1, <2>3, <2>4 DEF DestCmd
  <2>6. QED
    BY <1>2, <1>3, <1>4, <1>12, <1>14, <2>1, <2>5
<1>15. CASE Unknown(d)
  <2>1. SetBack(h, "handback-unknown") /\ Exit(d) /\ "handback-unknown" \in BackStatus
    BY <1>2, <1>15 DEF Unknown, BackStatus
  <2>2. cmd' \in CmdsType /\ OthersCmds(d) /\ cmd'[d].op = "none"
    BY <1>2, <1>4, <2>1, ExitLemma
  <2>3. /\ backs' \in BacksType /\ \A k \in Handbacks \ {h} : backs'[k] = backs[k]
        /\ backs'[h].status = "handback-unknown"
        /\ backs'[h].host = d /\ backs'[h].gen = g
    BY <1>2, <1>3, <1>4, <2>1, SetBackLemma
  <2>4. DestCmd(d)'
    BY <2>2 DEF DestCmd
  <2>5. QED
    BY <1>12, <2>2, <2>3, <2>4
<1>16. QED
  BY <1>8, <1>13, <1>14, <1>15

(* The commit comes after a closing scan.                                     *)
LEMMA HandbackCommitStep == ASSUME Inv, NEW d \in Dests, HandbackCommit(d) PROVE Inv'
<1>1. CASE HandbackCall(d, "commit")
  BY <1>1, HandbackCallStep DEF HandbackCommit
<1>2. CASE /\ Unknown(d)
           /\ UNCHANGED <<cfg, server, hosts, life, checks, told, receipt, used>>
  <2>1. used' \in UsedType
    BY <1>2 DEF Inv, TypeInv
  <2>2. cmd[d].op = "handback" /\ cmd[d].pc = "commit"
    BY DEF HandbackCommit, Returning
  <2>3. QED
    BY <1>2, <2>1, <2>2, UnknownStep DEF server
<1>3. QED
  BY <1>1, <1>2 DEF HandbackCommit
-----------------------------------------------------------------------------
(* The source runs, nothing was ever sealed.                                  *)
LEMMA InitInv == Init => Inv
<1> SUFFICES ASSUME Init PROVE Inv
  OBVIOUS
<1>1. PICK s : s = NoSeal
  OBVIOUS
<1>2. s \in SealType /\ ~s.issued /\ s.consumer = NoOne /\ s.resumed = "no"
  BY <1>1 DEF NoSeal, SealType, State, StateType
<1>3. PICK l : l = NewLife
  OBVIOUS
<1>4. l \in LifeType /\ l.status = "none" /\ ~l.proof
  BY <1>3 DEF NewLife, LifeType, LifeStatus, State, StateType
<1>5. PICK b : b = NewBack
  OBVIOUS
<1>6. b \in BackType /\ b.status = "none" /\ b.host = NoOne
  BY <1>5 DEF NewBack, BackType, BackStatus
<1>7. /\ \A g \in Gens : seals[g] = s /\ life[g] = l /\ told[g] = 0 /\ receipt[g] = NoOne
      /\ \A h \in Handbacks : backs[h] = b
      /\ \A h \in Hosts : cmd[h] = Idle
      /\ \A d \in Dests : hosts[d].daemon = "down"
  BY <1>1, <1>3, <1>5, CheckpointAssumption DEF Init, Hosts
<1>8. TypeInv
  <2>1. cloud \in StateType
    BY DEF Init, State, StateType
  <2>2. used \in UsedType
    BY DEF Init, UsedType
  <2>3. hosts \in HostsType
    <3>1. ASSUME NEW h \in Hosts PROVE hosts[h] \in HostType
      BY DEF Init, HostType
    <3>2. QED
      BY <3>1 DEF Init, HostsType
  <2>4. cmd \in CmdsType
    BY IdleLemma DEF Init, CmdsType
  <2>5. /\ seals \in [Gens -> SealType] /\ life \in LivesType /\ backs \in BacksType
        /\ told \in [Gens -> Int] /\ receipt \in [Gens -> Dests \union {NoOne}]
    BY <1>1, <1>2, <1>3, <1>4, <1>5, <1>6 DEF Init, LivesType, BacksType
  <2>6. QED
    BY <2>1, <2>2, <2>3, <2>4, <2>5 DEF Init, TypeInv
<1>9. SealInv
  BY <1>2, <1>7 DEF SealInv
<1>10. LifeInv
  BY <1>4, <1>7 DEF LifeInv, NewestOK, LifeOK, Active, Sealed
<1>11. SourceCmd
  BY <1>7, IdleLemma DEF SourceCmd, Hosts
<1>12. ReceiptInv
  BY <1>2, <1>7, CheckpointAssumption DEF ReceiptInv
<1>13. BackInv
  BY <1>6, <1>7 DEF BackInv
<1>14. DestInv
  BY <1>7, IdleLemma DEF DestInv, DestCmd, Hosts
<1>15. QED
  BY <1>8, <1>9, <1>10, <1>11, <1>12, <1>13, <1>14 DEF Inv

(* Every step of every host, command and request keeps the invariant.         *)
LEMMA NextInv == ASSUME NoStale, Inv, Next PROVE Inv'
<1>1. CASE External \/ IssueLate
  BY <1>1, ExternalStep, IssueLateStep
<1>2. CASE SourceStep
  BY <1>2, SealStopStep, SealDrainStep, SealIssueStep, SealFinalStep, SealRecoverStep,
     ResumeRestartStep, ResumeBurnStep, ResumeEnsureStep, ResumeProofStep, StartSourceStep
     DEF SourceStep
<1>3. ASSUME NEW h \in Hosts, Sync(h) \/ Die(h) \/ Turn(h) \/ Stray(h) \/ Kill(h) PROVE Inv'
  BY <1>3, SyncStep, DieStep, EditSteps, KillStep
<1>4. ASSUME NEW g \in Gens,
             \/ SealBegin(g) \/ SealAgain(g) \/ ResumeBegin(g)
             \/ Expire(g) \/ Purge(g) \/ Reconcile(g)
      PROVE  Inv'
  BY <1>4, SealBeginStep, SealAgainStep, ResumeBeginStep, ExpireStep, PurgeStep, ReconcileStep
<1>5. ASSUME NEW d \in Dests, DestStep(d) PROVE Inv'
  <2>1. CASE HandbackPrepare(d)
    BY <2>1, HandbackCallStep DEF HandbackPrepare
  <2>2. CASE VerifyAgain(d) \/ VerifyStop(d) \/ VerifyCheck(d) \/ VerifyEnd(d) \/ StartMount(d)
    BY <2>2, VerifySteps, StartDestSteps
  <2>3. CASE \/ HandbackStop(d) \/ HandbackDrain(d) \/ HandbackCommit(d)
             \/ HandbackFinish(d) \/ HandbackRecover(d)
    BY <2>3, HandbackStopStep, HandbackDrainStep, HandbackCommitStep, HandbackFinishStep,
       HandbackRecoverStep
  <2>4. QED
    BY <1>5, <2>1, <2>2, <2>3 DEF DestStep
<1>6. ASSUME NEW d \in Dests, NEW g \in Gens,
             \/ Consume(d, g) \/ RecoverConsume(d, g)
             \/ StartDestination(d, g) \/ VerifyBegin(d, g)
      PROVE  Inv'
  BY <1>6, ConsumeStep, RecoverConsumeStep, StartDestSteps, VerifyBeginStep
<1>7. ASSUME NEW d \in Dests, NEW g \in Gens, NEW h \in Handbacks, HandbackBegin(h, d, g)
      PROVE  Inv'
  BY <1>7, HandbackBeginStep
<1>8. ASSUME NEW h \in Handbacks, HandbackAgain(h) PROVE Inv'
  BY <1>8, HandbackAgainStep
<1>9. QED
  BY <1>1, <1>2, <1>3, <1>4, <1>5, <1>6, <1>7, <1>8 DEF Next

(* The invariant leaves room for one writer only.                             *)
LEMMA InvOneWriter == Inv => OneWriter
<1> SUFFICES ASSUME Inv PROVE OneWriter
  OBVIOUS
<1>1. ASSUME NEW d \in Dests, NEW g \in Gens PROVE (g \in SealOf(d)) = Owned(d, g)
  BY CheckpointAssumption DEF SealOf, Status, Owned, Inv, TypeInv, SealType
<1>2. ASSUME NEW d \in Dests, hosts[d].daemon # "down" PROVE SealOf(d) # {}
  BY <1>1, <1>2 DEF Inv, DestInv
<1>3. ASSUME NEW d \in Dests, hosts[Source].daemon # "down" PROVE SealOf(d) = {}
  <2> SUFFICES ASSUME NEW g \in Gens, g \in SealOf(d) PROVE FALSE
    BY DEF SealOf
  <2>1. Owned(d, g) /\ seals[g].consumer # NoOne
    BY <1>1, CheckpointAssumption DEF Owned
  <2>2. Opened(g) /\ ~Gone(g)
    BY <2>1 DEF Inv, SealInv, Owned, Gone
  <2>3. Sealed(g) /\ ~life[g].proof
    BY <2>2 DEF Opened, Inv, LifeInv, LifeOK
  <2>4. QED
    BY <1>3, <2>3 DEF Inv, LifeInv, LifeOK
<1>4. QED
  BY <1>2, <1>3 DEF OneWriter

(* Never two writers: through kills, lost answers, delayed requests, retries, *)
(* stray writes and contending destinations, a daemon runs on a destination   *)
(* only while the server has it as the owner, and on the source only while no *)
(* destination owns the session (checkpoint_lifecycle.go, checkpoint_seal.go),*)
(* provided the controller leaves a lifecycle alone once it has begun a newer *)
(* one.                                                                       *)
THEOREM NeverTwoWriters == ASSUME NoStale PROVE Spec => []OneWriter
<1>1. Init => Inv
  BY InitInv
<1>2. Inv /\ [Next]_vars => Inv'
  <2> SUFFICES ASSUME Inv, [Next]_vars PROVE Inv'
    OBVIOUS
  <2>1. CASE Next
    BY <2>1, NextInv
  <2>2. CASE UNCHANGED vars
    <3>1. UNCHANGED <<cfg, cloud, seals, last, bound, late, hosts, life, checks, backs, cmd,
                      told, receipt, used>>
      BY <2>2 DEF vars, server, files
    <3>2. TypeInv'
      BY <3>1 DEF Inv, TypeInv
    <3>3. \A h \in Hosts : Quiet(h)
      BY <3>1 DEF Quiet
    <3>4. QED
      BY <3>1, <3>2, <3>3, StillStep
  <2>3. QED
    BY <2>1, <2>2
<1>3. Inv => OneWriter
  BY InvOneWriter
<1>4. QED
  BY <1>1, <1>2, <1>3, PTL DEF Spec
====
