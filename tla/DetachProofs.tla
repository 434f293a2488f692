---------------------------- MODULE DetachProofs ----------------------------
(***************************************************************************)
(* Proofs about background mounts, for any set of share protocols and any  *)
(* timeouts: every prompt of the child is answered with its own secret,    *)
(* and what the parent reports of the mount is so.                         *)
(***************************************************************************)
EXTENDS Detach, SequenceTheorems, TLAPS

-----------------------------------------------------------------------------
(* The names of the steps, and those that must not come twice.             *)
Milestone == {"ask_share", "boot", "setup", "ask_container", "ask_volume", "save"}

StepName == {"plan", "check_target", "prepare", "publish", "start", "lvm", "check_devices",
  "open_container", "lvm_in_container", "open_volume", "mount", "user", "config", "samba",
  "smbpasswd", "chpasswd", "vsftpd", "host_keys", "sshd"} \cup Milestone

(* The order of these.                                                     *)
Place == [x \in StepName |->
  CASE x = "ask_share" -> 1     [] x = "boot" -> 2       [] x = "setup" -> 3
    [] x = "ask_container" -> 4 [] x = "ask_volume" -> 5 [] x = "save" -> 6
    [] OTHER -> 0]

InOrder(s) ==
  \A i, j \in 1 .. Len(s) : i < j /\ Place[s[j]] > 0 => Place[s[i]] < Place[s[j]]

(* The record is saved last.                                               *)
SaveIsLast(s) == \A i \in 1 .. Len(s) : s[i] = "save" => i = Len(s)

(* The secrets that steps s will ask for.                                  *)
Awaited(s) == {Asks[x] : x \in ToSet(s) \cap DOMAIN Asks}

(* What the child has done and has before it is what Steps makes of the    *)
(* options, and a mounted record is the end of it.                         *)
PlanInv ==
  /\ left \in Seq(StepName) /\ InOrder(left) /\ SaveIsLast(left)
  /\ IsSuffix(left, Steps(provider, wanted, backend))
  /\ child # "unborn" => ToSet(Steps(provider, wanted, backend)) = did \cup ToSet(left)
  /\ child = "serving" \/ record = "mounted" \/ report = "up" =>
       child # "unborn" /\ left = <<>>

(* Before the child is there nothing of it is, and its parent has not come *)
(* to write.                                                               *)
BirthInv ==
  /\ parent \in {"collecting", "spawning"} => child = "unborn"
  /\ child = "unborn" =>
       /\ parent \notin {"writing", "waiting"}
       /\ left = <<>> /\ did = {} /\ record = "none" /\ pipe = <<>>
       /\ got = [k \in Secret |-> "nothing"]
       /\ clock = 0 /\ slow = 0 /\ since = 0

(* The record is there as long as its process, once it has been seen.      *)
ReportInv ==
  /\ seen => record # "none" \/ child = "gone"
  /\ report = "stopped" => child = "gone"

(* The lines in the pipe and those still to be written are the secrets the *)
(* child has still to ask for, in its order; when its parent has given up, *)
(* the lines in the pipe are the first of them.                            *)
StreamInv ==
  /\ parent = "collecting" => secrets \o todo = RunOrder(wanted)
  /\ parent = "spawning" => secrets = RunOrder(wanted)
  /\ parent = "writing" => pipe \o secrets = RunOrder(Awaited(left))
  /\ child # "unborn" => \E rest \in Seq(Secret) : pipe \o rest = RunOrder(Awaited(left))

AnswerInv ==
  /\ \A k \in Secret : got[k] \in {"nothing", k}
  /\ child # "unborn" => \A k \in wanted : got[k] = k \/ k \in Awaited(left)

(* What the clock has beyond the slow steps was spent on the boot and the  *)
(* setup, and no more than their limits.                                   *)
TimeInv ==
  /\ slow <= clock
  /\ AtStep /\ Head(left) \notin Unbounded => since <= Limit(Head(left))
  /\ clock <= slow + BootTimeout + SetupTimeout
  /\ child = "running" /\ "setup" \in ToSet(left) =>
       clock <= slow + BootTimeout + (IF Head(left) = "setup" THEN since ELSE 0)
  /\ child = "running" /\ "boot" \in ToSet(left) =>
       clock <= slow + (IF Head(left) = "boot" THEN since ELSE 0)
  /\ report = "late" => slow >= Minute

(* The inductive invariant.                                                *)
DetachInv ==
  TypeOK /\ PlanInv /\ BirthInv /\ ReportInv /\ StreamInv /\ AnswerInv /\ TimeInv

-----------------------------------------------------------------------------
(* The steps of the child.                                                 *)

(* A concatenation has the elements of both its parts.                     *)
LEMMA ToSetOfConcat ==
  ASSUME NEW S, NEW s \in Seq(S), NEW t \in Seq(S)
  PROVE  ToSet(s \o t) = ToSet(s) \cup ToSet(t)
<1> DEFINE u == s \o t
<1>1. /\ u \in Seq(S) /\ Len(u) = Len(s) + Len(t)
      /\ \A i \in 1 .. Len(s) + Len(t) : u[i] = IF i <= Len(s) THEN s[i] ELSE t[i - Len(s)]
  BY ConcatProperties
<1>2. /\ Len(s) \in Nat /\ Len(t) \in Nat
      /\ DOMAIN s = 1 .. Len(s) /\ DOMAIN t = 1 .. Len(t) /\ DOMAIN u = 1 .. Len(u)
  BY <1>1, LenProperties
<1> HIDE DEF u
<1>3. ASSUME NEW x \in ToSet(u) PROVE x \in ToSet(s) \cup ToSet(t)
  <2>1. PICK i \in 1 .. Len(u) : x = u[i]
    BY <1>2 DEF ToSet
  <2>2. CASE i <= Len(s)
    <3>1. i \in 1 .. Len(s) /\ x = s[i]
      BY <1>1, <1>2, <2>1, <2>2
    <3> QED BY <3>1, <1>2 DEF ToSet
  <2>3. CASE ~(i <= Len(s))
    <3>1. i - Len(s) \in 1 .. Len(t) /\ x = t[i - Len(s)]
      BY <1>1, <1>2, <2>1, <2>3
    <3> QED BY <3>1, <1>2 DEF ToSet
  <2> QED BY <2>2, <2>3
<1>4. ASSUME NEW x \in ToSet(s) PROVE x \in ToSet(u)
  <2>1. PICK i \in 1 .. Len(s) : x = s[i]
    BY <1>2 DEF ToSet
  <2>2. i \in 1 .. Len(u) /\ u[i] = x
    BY <1>1, <1>2, <2>1
  <2> QED BY <2>2, <1>2 DEF ToSet
<1>5. ASSUME NEW x \in ToSet(t) PROVE x \in ToSet(u)
  <2>1. PICK i \in 1 .. Len(t) : x = t[i]
    BY <1>2 DEF ToSet
  <2>2. i + Len(s) \in 1 .. Len(u) /\ u[i + Len(s)] = x
    BY <1>1, <1>2, <2>1
  <2> QED BY <2>2, <1>2 DEF ToSet
<1>6. ToSet(u) = ToSet(s) \cup ToSet(t)
  BY <1>3, <1>4, <1>5
<1> QED BY <1>6 DEF u

(* A part of the plan whose milestones have their places from a to b.      *)
Between(s, a, b) ==
  /\ s \in Seq(StepName) /\ InOrder(s)
  /\ \A i \in 1 .. Len(s) : Place[s[i]] \in {0} \cup a .. b

LEMMA Places ==
  /\ Place \in [StepName -> 0 .. 6]
  /\ Place["ask_share"] = 1 /\ Place["boot"] = 2 /\ Place["setup"] = 3
  /\ Place["ask_container"] = 4 /\ Place["ask_volume"] = 5 /\ Place["save"] = 6
  /\ \A x \in StepName \ Milestone : Place[x] = 0
  /\ \A x \in StepName : Place[x] = 6 <=> x = "save"
<1>1. /\ Place["ask_share"] = 1 /\ Place["boot"] = 2 /\ Place["setup"] = 3
      /\ Place["ask_container"] = 4 /\ Place["ask_volume"] = 5 /\ Place["save"] = 6
  BY DEF Place, StepName, Milestone
<1>2. ASSUME NEW x \in StepName PROVE Place[x] \in 0 .. 6
  BY DEF Place
<1>3. \A x \in StepName \ Milestone : Place[x] = 0
  BY DEF Place, Milestone
<1>4. \A x \in StepName : Place[x] = 6 <=> x = "save"
  <2>1. ASSUME NEW x \in Milestone, x # "save" PROVE Place[x] # 6
    BY <1>1, <2>1 DEF Milestone
  <2> QED BY <1>1, <1>3, <2>1
<1>5. Place \in [StepName -> 0 .. 6]
  BY <1>2 DEF Place
<1> QED BY <1>1, <1>3, <1>4, <1>5

(* Two parts in the order of their milestones make one.                    *)
LEMMA Joined ==
  ASSUME NEW a \in 1 .. 7, NEW b \in 0 .. 6, NEW c \in 1 .. 7, NEW d \in 0 .. 6,
         a <= c, b < c, b <= d,
         NEW s, NEW t, Between(s, a, b), Between(t, c, d)
  PROVE  Between(s \o t, a, d)
<1> DEFINE u == s \o t
<1>0. s \in Seq(StepName) /\ t \in Seq(StepName)
  BY DEF Between
<1>1. /\ u \in Seq(StepName) /\ Len(u) = Len(s) + Len(t)
      /\ \A i \in 1 .. Len(s) + Len(t) : u[i] = IF i <= Len(s) THEN s[i] ELSE t[i - Len(s)]
  BY <1>0, ConcatProperties
<1>2. Len(s) \in Nat /\ Len(t) \in Nat
  BY <1>0, LenProperties
<1> HIDE DEF u
<1>3. ASSUME NEW i \in 1 .. Len(u)
      PROVE  \/ i \in 1 .. Len(s) /\ u[i] = s[i]
             \/ i - Len(s) \in 1 .. Len(t) /\ u[i] = t[i - Len(s)]
  BY <1>1, <1>2
<1>4. ASSUME NEW i \in 1 .. Len(u) PROVE Place[u[i]] \in {0} \cup a .. d
  <2>1. Place[u[i]] \in {0} \cup a .. b \/ Place[u[i]] \in {0} \cup c .. d
    BY <1>3 DEF Between
  <2> QED BY <2>1
<1>5. ASSUME NEW i \in 1 .. Len(u), NEW j \in 1 .. Len(u), i < j, Place[u[j]] > 0
      PROVE  Place[u[i]] < Place[u[j]]
  <2>1. CASE j \in 1 .. Len(s) /\ u[j] = s[j]
    <3>1. i \in 1 .. Len(s) /\ u[i] = s[i]
      BY <1>1, <1>2, <1>5, <2>1
    <3> QED BY <1>5, <2>1, <3>1 DEF Between, InOrder
  <2>2. CASE /\ i \in 1 .. Len(s) /\ u[i] = s[i]
             /\ j - Len(s) \in 1 .. Len(t) /\ u[j] = t[j - Len(s)]
    <3>1. Place[u[i]] \in {0} \cup a .. b
      BY <2>2 DEF Between
    <3>2. Place[u[j]] \in {0} \cup c .. d
      BY <2>2 DEF Between
    <3> QED BY <1>5, <3>1, <3>2
  <2>3. CASE /\ i - Len(s) \in 1 .. Len(t) /\ u[i] = t[i - Len(s)]
             /\ j - Len(s) \in 1 .. Len(t) /\ u[j] = t[j - Len(s)]
    <3>1. i - Len(s) < j - Len(s)
      BY <1>2, <1>5
    <3> QED BY <1>5, <2>3, <3>1 DEF Between, InOrder
  <2> QED BY <1>3, <2>1, <2>2, <2>3
<1>6. Between(u, a, d)
  BY <1>1, <1>4, <1>5 DEF Between, InOrder
<1> QED BY <1>6 DEF u

LEMMA NothingBetween ==
  ASSUME NEW a \in 1 .. 7, NEW b \in 0 .. 6
  PROVE  Between(<<>>, a, b)
BY DEF Between, InOrder

LEMMA OneBetween ==
  ASSUME NEW a \in 1 .. 7, NEW b \in 0 .. 6,
         NEW x \in StepName, Place[x] \in {0} \cup a .. b
  PROVE  Between(<<x>>, a, b)
<1> DEFINE s == <<x>>
<1>1. s \in Seq(StepName) /\ Len(s) = 1 /\ s[1] = x
  OBVIOUS
<1> HIDE DEF s
<1>2. Between(s, a, b)
  BY <1>1 DEF Between, InOrder
<1> QED BY <1>2 DEF s

(* The parts of the plan.                                                  *)
LEMMA PlanParts ==
  ASSUME NEW p, NEW b \in {"smb", "ftp", "sftp"}
  PROVE  /\ Between(<<"plan">>, 1, 0)
         /\ Between(<<"ask_share">>, 1, 1)
         /\ Between(SessionSteps(p), 2, 3)
         /\ Between(DeviceSteps, 4, 3)
         /\ Between(<<"ask_container", "open_container", "lvm_in_container">>, 4, 4)
         /\ Between(<<"ask_volume", "open_volume">>, 5, 5)
         /\ Between(<<"mount">>, 6, 5)
         /\ Between(ShareSteps(b), 6, 5)
         /\ Between(<<"save">>, 6, 6)
<1>1. Between(<<"plan">>, 1, 0)
  <2>1. "plan" \in StepName \ Milestone
    BY DEF StepName, Milestone
  <2>2. Place["plan"] \in {0} \cup 1 .. 0
    BY <2>1, Places
  <2> QED BY <2>1, <2>2, OneBetween
<1>2. Between(<<"ask_share">>, 1, 1)
  <2>1. "ask_share" \in StepName
    BY DEF StepName, Milestone
  <2>2. Place["ask_share"] \in {0} \cup 1 .. 1
    BY <2>1, Places
  <2> QED BY <2>1, <2>2, OneBetween
<1>3. Between(SessionSteps(p), 2, 3)
  <2> DEFINE s == SessionSteps(p)
  <2>1. s \in Seq(StepName)
    <3>1. /\ <<"check_target", "prepare", "publish", "boot", "setup", "lvm">> \in Seq(StepName)
          /\ <<"check_target", "prepare", "publish", "start", "lvm">> \in Seq(StepName)
      BY DEF StepName, Milestone
    <3> QED BY <3>1 DEF SessionSteps
  <2>2. /\ Place["check_target"] = 0 /\ Place["prepare"] = 0 /\ Place["publish"] = 0
        /\ Place["start"] = 0 /\ Place["lvm"] = 0
    BY Places DEF StepName, Milestone
  <2>3. CASE p = "qemu"
    <3>1. /\ Len(s) = 6 /\ Place[s[1]] = 0 /\ Place[s[2]] = 0 /\ Place[s[3]] = 0
          /\ Place[s[4]] = 2 /\ Place[s[5]] = 3 /\ Place[s[6]] = 0
      BY <2>2, <2>3, Places DEF SessionSteps
    <3> QED BY <2>1, <3>1 DEF Between, InOrder
  <2>4. CASE p # "qemu"
    <3>1. /\ Len(s) = 5 /\ Place[s[1]] = 0 /\ Place[s[2]] = 0 /\ Place[s[3]] = 0
          /\ Place[s[4]] = 0 /\ Place[s[5]] = 0
      BY <2>2, <2>4 DEF SessionSteps
    <3> QED BY <2>1, <3>1 DEF Between, InOrder
  <2> QED BY <2>3, <2>4
<1>4. Between(DeviceSteps, 4, 3)
  <2>1. "check_devices" \in StepName \ Milestone
    BY DEF StepName, Milestone
  <2>2. Place["check_devices"] \in {0} \cup 4 .. 3
    BY <2>1, Places
  <2> QED BY <2>1, <2>2, OneBetween DEF DeviceSteps
<1>5. Between(<<"ask_container", "open_container", "lvm_in_container">>, 4, 4)
  <2> DEFINE s == <<"ask_container", "open_container", "lvm_in_container">>
  <2>1. s \in Seq(StepName) /\ Len(s) = 3
    BY DEF StepName, Milestone
  <2>2. Place["open_container"] = 0 /\ Place["lvm_in_container"] = 0
    BY Places DEF StepName, Milestone
  <2>3. Place[s[1]] = 4 /\ Place[s[2]] = 0 /\ Place[s[3]] = 0
    BY <2>2, Places
  <2> HIDE DEF s
  <2>4. Between(s, 4, 4)
    BY <2>1, <2>3 DEF Between, InOrder
  <2> QED BY <2>4 DEF s
<1>6. Between(<<"ask_volume", "open_volume">>, 5, 5)
  <2> DEFINE s == <<"ask_volume", "open_volume">>
  <2>1. s \in Seq(StepName) /\ Len(s) = 2
    BY DEF StepName, Milestone
  <2>2. Place["open_volume"] = 0
    BY Places DEF StepName, Milestone
  <2>3. Place[s[1]] = 5 /\ Place[s[2]] = 0
    BY <2>2, Places
  <2> HIDE DEF s
  <2>4. Between(s, 5, 5)
    BY <2>1, <2>3 DEF Between, InOrder
  <2> QED BY <2>4 DEF s
<1>7. Between(<<"mount">>, 6, 5)
  <2>1. "mount" \in StepName \ Milestone
    BY DEF StepName, Milestone
  <2>2. Place["mount"] \in {0} \cup 6 .. 5
    BY <2>1, Places
  <2> QED BY <2>1, <2>2, OneBetween
<1>8. Between(ShareSteps(b), 6, 5)
  <2> DEFINE s == ShareSteps(b)
             daemons == {"user", "config", "samba", "smbpasswd", "chpasswd", "vsftpd",
                         "host_keys", "sshd"}
  <2>1. \/ s = <<"user", "config", "samba", "smbpasswd">>
        \/ s = <<"user", "chpasswd", "config", "vsftpd">>
        \/ s = <<"user", "chpasswd", "config", "host_keys", "sshd">>
    BY DEF ShareSteps, SmbSteps, FtpSteps, SftpSteps
  <2> HIDE DEF s
  <2>2. s \in Seq(daemons)
    <3>1. /\ <<"user", "config", "samba", "smbpasswd">> \in Seq(daemons)
          /\ <<"user", "chpasswd", "config", "vsftpd">> \in Seq(daemons)
          /\ <<"user", "chpasswd", "config", "host_keys", "sshd">> \in Seq(daemons)
      OBVIOUS
    <3> QED BY <2>1, <3>1
  <2>3. daemons \subseteq StepName \ Milestone
    BY DEF StepName, Milestone
  <2> HIDE DEF daemons
  <2>4. \A i \in 1 .. Len(s) : Place[s[i]] = 0
    <3>1. \A i \in 1 .. Len(s) : s[i] \in StepName \ Milestone
      BY <2>2, <2>3, ElementOfSeq
    <3> QED BY <3>1, Places
  <2>5. s \in Seq(StepName)
    BY <2>2, <2>3, SeqMonotonic
  <2>6. Between(s, 6, 5)
    BY <2>4, <2>5 DEF Between, InOrder
  <2> QED BY <2>6 DEF s
<1>9. Between(<<"save">>, 6, 6)
  <2>1. "save" \in StepName
    BY DEF StepName, Milestone
  <2>2. Place["save"] \in {0} \cup 6 .. 6
    BY <2>1, Places
  <2> QED BY <2>1, <2>2, OneBetween
<1> QED BY <1>1, <1>2, <1>3, <1>4, <1>5, <1>6, <1>7, <1>8, <1>9

LEMMA IfIsPart ==
  ASSUME NEW a \in 1 .. 7, NEW b \in 0 .. 6, NEW k, NEW w, NEW s, Between(s, a, b)
  PROVE  Between(If(k \in w, s), a, b)
BY NothingBetween DEF If

(* What Steps makes of any options is in order and ends with the record.    *)
LEMMA StepsInOrder ==
  ASSUME NEW p, NEW w \in SUBSET Secret, NEW b \in {"smb", "ftp", "sftp"}
  PROVE  /\ Steps(p, w, b) \in Seq(StepName)
         /\ InOrder(Steps(p, w, b)) /\ SaveIsLast(Steps(p, w, b))
<1> DEFINE s1 == <<"plan">>
           s2 == s1 \o If("share" \in w, <<"ask_share">>)
           s3 == s2 \o SessionSteps(p)
           s4 == s3 \o DeviceSteps
           m1 == If("container" \in w, <<"ask_container", "open_container", "lvm_in_container">>)
           m2 == m1 \o If("volume" \in w, <<"ask_volume", "open_volume">>)
           s5 == s4 \o MountSteps(w)
           s6 == s5 \o ShareSteps(b)
           s7 == s6 \o <<"save">>
<1>1. Between(s1, 1, 0)
  BY PlanParts
<1>2. Between(s2, 1, 1)
  <2>1. Between(If("share" \in w, <<"ask_share">>), 1, 1)
    BY PlanParts, IfIsPart
  <2> QED BY <1>1, <2>1, Joined
<1>3. Between(s3, 1, 3)
  BY <1>2, PlanParts, Joined
<1>4. Between(s4, 1, 3)
  BY <1>3, PlanParts, Joined
<1>5. Between(MountSteps(w), 4, 5)
  <2>1. Between(m1, 4, 4)
    BY PlanParts, IfIsPart
  <2>2. Between(If("volume" \in w, <<"ask_volume", "open_volume">>), 5, 5)
    BY PlanParts, IfIsPart
  <2>3. Between(m2, 4, 5)
    BY <2>1, <2>2, Joined
  <2>4. Between(m2 \o <<"mount">>, 4, 5)
    BY <2>3, PlanParts, Joined
  <2> QED BY <2>4 DEF MountSteps
<1>6. Between(s5, 1, 5)
  BY <1>4, <1>5, Joined
<1>7. Between(s6, 1, 5)
  BY <1>6, PlanParts, Joined
<1>8. Between(s7, 1, 6)
  BY <1>7, PlanParts, Joined
<1>9. SaveIsLast(s7)
  <2> HIDE DEF s6
  <2>1. s6 \in Seq(StepName) /\ \A i \in 1 .. Len(s6) : Place[s6[i]] \in {0} \cup 1 .. 5
    BY <1>7 DEF Between
  <2>2. \A i \in 1 .. Len(s6) : s6[i] # "save"
    <3>1. \A i \in 1 .. Len(s6) : Place[s6[i]] # 6
      BY <2>1
    <3> QED BY <3>1, Places
  <2>3. <<"save">> \in Seq(StepName) /\ Len(<<"save">>) = 1
    BY DEF StepName, Milestone
  <2>4. Len(s6) \in Nat
    BY <2>1, LenProperties
  <2>5. /\ Len(s7) = Len(s6) + 1
        /\ \A i \in 1 .. Len(s6) + 1 : i <= Len(s6) => s7[i] = s6[i]
    BY <2>1, <2>3, ConcatProperties
  <2> HIDE DEF s7
  <2> QED BY <2>2, <2>4, <2>5 DEF SaveIsLast
<1>10. s7 = Steps(p, w, b)
  BY DEF Steps
<1> QED BY <1>8, <1>9, <1>10 DEF Between

(* Its elements.                                                            *)
LEMMA StepsHave ==
  ASSUME NEW p, NEW w \in SUBSET Secret, NEW b \in {"smb", "ftp", "sftp"}
  PROVE  /\ {"mount"} \cup ToSet(ShareSteps(b)) \subseteq ToSet(Steps(p, w, b))
         /\ Awaited(Steps(p, w, b)) = w
<1>1. /\ <<"plan">> \in Seq(StepName) /\ <<"ask_share">> \in Seq(StepName)
      /\ SessionSteps(p) \in Seq(StepName) /\ DeviceSteps \in Seq(StepName)
      /\ <<"ask_container", "open_container", "lvm_in_container">> \in Seq(StepName)
      /\ <<"ask_volume", "open_volume">> \in Seq(StepName)
      /\ <<"mount">> \in Seq(StepName) /\ ShareSteps(b) \in Seq(StepName)
      /\ <<"save">> \in Seq(StepName)
  BY PlanParts DEF Between
<1> DEFINE i1 == If("share" \in w, <<"ask_share">>)
           i2 == If("container" \in w, <<"ask_container", "open_container", "lvm_in_container">>)
           i3 == If("volume" \in w, <<"ask_volume", "open_volume">>)
<1>2. i1 \in Seq(StepName) /\ i2 \in Seq(StepName) /\ i3 \in Seq(StepName)
  BY <1>1 DEF If
<1> DEFINE s2 == <<"plan">> \o i1
           s3 == s2 \o SessionSteps(p)
           s4 == s3 \o DeviceSteps
           m2 == i2 \o i3
           m3 == m2 \o <<"mount">>
           s5 == s4 \o m3
           s6 == s5 \o ShareSteps(b)
           s7 == s6 \o <<"save">>
<1>3. s7 = Steps(p, w, b)
  BY DEF Steps, MountSteps
<1> HIDE DEF i1, i2, i3
<1>0. \A s \in Seq(StepName), t \in Seq(StepName) : ToSet(s \o t) = ToSet(s) \cup ToSet(t)
  BY ToSetOfConcat
<1>4. /\ s2 \in Seq(StepName) /\ s3 \in Seq(StepName) /\ s4 \in Seq(StepName)
      /\ m2 \in Seq(StepName) /\ m3 \in Seq(StepName)
      /\ s5 \in Seq(StepName) /\ s6 \in Seq(StepName)
  BY <1>1, <1>2, ConcatProperties
<1>5. ToSet(s7) = ToSet(s6) \cup ToSet(<<"save">>)
  BY <1>0, <1>1, <1>4
<1>6. ToSet(s6) = ToSet(s5) \cup ToSet(ShareSteps(b))
  BY <1>0, <1>1, <1>4
<1>7. ToSet(s5) = ToSet(s4) \cup ToSet(m3)
  BY <1>0, <1>1, <1>4
<1>8. ToSet(m3) = ToSet(i2) \cup ToSet(i3) \cup ToSet(<<"mount">>)
  <2>1. ToSet(m3) = ToSet(m2) \cup ToSet(<<"mount">>)
    BY <1>0, <1>1, <1>4
  <2>2. ToSet(m2) = ToSet(i2) \cup ToSet(i3)
    BY <1>0, <1>2
  <2> QED BY <2>1, <2>2
<1>9. ToSet(s4) = ToSet(<<"plan">>) \cup ToSet(i1)
                      \cup ToSet(SessionSteps(p)) \cup ToSet(DeviceSteps)
  <2>1. ToSet(s4) = ToSet(s3) \cup ToSet(DeviceSteps)
    BY <1>0, <1>1, <1>4
  <2>2. ToSet(s3) = ToSet(s2) \cup ToSet(SessionSteps(p))
    BY <1>0, <1>1, <1>4
  <2>3. ToSet(s2) = ToSet(<<"plan">>) \cup ToSet(i1)
    BY <1>0, <1>1, <1>2
  <2> QED BY <2>1, <2>2, <2>3
<1>10. /\ ToSet(<<"plan">>) = {"plan"} /\ ToSet(<<"save">>) = {"save"}
       /\ ToSet(<<"mount">>) = {"mount"}
  BY DEF ToSet
<1>11. ToSet(SessionSteps(p)) \cap DOMAIN Asks = {}
  BY DEF ToSet, SessionSteps, Asks
<1>12. ToSet(DeviceSteps) \cap DOMAIN Asks = {}
  BY DEF ToSet, DeviceSteps, Asks
<1>13. ToSet(ShareSteps(b)) \cap DOMAIN Asks = {}
  BY DEF ToSet, ShareSteps, SmbSteps, FtpSteps, SftpSteps, Asks
<1>14. ToSet(i1) = IF "share" \in w THEN {"ask_share"} ELSE {}
  BY DEF i1, If, ToSet
<1>15. ToSet(i2) \cap DOMAIN Asks = IF "container" \in w THEN {"ask_container"} ELSE {}
  BY DEF i2, If, ToSet, Asks
<1>16. ToSet(i3) \cap DOMAIN Asks = IF "volume" \in w THEN {"ask_volume"} ELSE {}
  BY DEF i3, If, ToSet, Asks
<1>17. DOMAIN Asks = {"ask_share", "ask_container", "ask_volume"}
  BY DEF Asks
<1> HIDE DEF s7, s6, s5, s4, m3
<1>18. ToSet(s7) \cap DOMAIN Asks =
         (IF "share" \in w THEN {"ask_share"} ELSE {})
           \cup (IF "container" \in w THEN {"ask_container"} ELSE {})
           \cup (IF "volume" \in w THEN {"ask_volume"} ELSE {})
  BY <1>5, <1>6, <1>7, <1>8, <1>9, <1>10, <1>11, <1>12, <1>13, <1>14, <1>15, <1>16, <1>17
<1>19. /\ Asks["ask_share"] = "share" /\ Asks["ask_container"] = "container"
       /\ Asks["ask_volume"] = "volume"
  BY DEF Asks
<1>20. Awaited(s7) = w
  BY <1>18, <1>19 DEF Awaited, Secret
<1>21. {"mount"} \cup ToSet(ShareSteps(b)) \subseteq ToSet(s7)
  BY <1>5, <1>6, <1>7, <1>8, <1>10
<1> QED BY <1>3, <1>20, <1>21

(* The steps that are left after one.                                       *)
LEMMA TailOfSteps ==
  ASSUME NEW s \in Seq(StepName), s # <<>>, InOrder(s), SaveIsLast(s)
  PROVE  /\ Head(s) \in StepName /\ Tail(s) \in Seq(StepName)
         /\ InOrder(Tail(s)) /\ SaveIsLast(Tail(s))
         /\ ToSet(s) = {Head(s)} \cup ToSet(Tail(s))
         /\ Head(s) = "save" => Tail(s) = <<>>
         /\ \A x \in ToSet(Tail(s)) :
              x \in StepName /\ (Place[x] > 0 => Place[Head(s)] < Place[x])
<1> DEFINE t == Tail(s)
<1>1. /\ Head(s) \in StepName /\ t \in Seq(StepName) /\ Len(t) = Len(s) - 1
      /\ \A i \in 1 .. Len(t) : t[i] = s[i + 1]
  BY HeadTailProperties
<1>2. /\ Len(s) \in Nat \ {0} /\ Head(s) = s[1]
      /\ DOMAIN s = 1 .. Len(s) /\ DOMAIN t = 1 .. Len(t)
  BY <1>1, EmptySeq, LenProperties
<1> HIDE DEF t
<1>3. InOrder(t)
  <2> SUFFICES ASSUME NEW i \in 1 .. Len(t), NEW j \in 1 .. Len(t), i < j, Place[t[j]] > 0
               PROVE  Place[t[i]] < Place[t[j]]
    BY DEF InOrder
  <2>1. /\ i + 1 \in 1 .. Len(s) /\ j + 1 \in 1 .. Len(s) /\ i + 1 < j + 1
        /\ t[i] = s[i + 1] /\ t[j] = s[j + 1]
    BY <1>1, <1>2
  <2> QED BY <2>1 DEF InOrder
<1>4. SaveIsLast(t)
  <2> SUFFICES ASSUME NEW i \in 1 .. Len(t), t[i] = "save" PROVE i = Len(t)
    BY DEF SaveIsLast
  <2>1. i + 1 \in 1 .. Len(s) /\ s[i + 1] = "save"
    BY <1>1, <1>2
  <2>2. i + 1 = Len(s)
    BY <2>1 DEF SaveIsLast
  <2> QED BY <2>2, <1>1, <1>2
<1>5. ASSUME NEW x \in ToSet(t)
      PROVE  \E j \in 2 .. Len(s) : x = s[j]
  <2>1. PICK i \in 1 .. Len(t) : x = t[i]
    BY <1>2 DEF ToSet
  <2>2. i + 1 \in 2 .. Len(s) /\ x = s[i + 1]
    BY <1>1, <1>2, <2>1
  <2> QED BY <2>2
<1>6. ASSUME NEW j \in 2 .. Len(s) PROVE s[j] \in ToSet(t)
  <2>1. j - 1 \in 1 .. Len(t) /\ t[j - 1] = s[j]
    BY <1>1, <1>2
  <2> QED BY <2>1, <1>2 DEF ToSet
<1>7. ToSet(s) = {Head(s)} \cup ToSet(t)
  <2>1. ASSUME NEW x \in ToSet(s) PROVE x = Head(s) \/ x \in ToSet(t)
    <3>1. PICK j \in 1 .. Len(s) : x = s[j]
      BY <1>2 DEF ToSet
    <3>2. j = 1 \/ j \in 2 .. Len(s)
      BY <1>2
    <3> QED BY <1>2, <1>6, <3>1, <3>2
  <2>2. Head(s) \in ToSet(s)
    BY <1>2 DEF ToSet
  <2>3. ASSUME NEW x \in ToSet(t) PROVE x \in ToSet(s)
    <3>1. PICK j \in 2 .. Len(s) : x = s[j]
      BY <1>5
    <3>2. j \in 1 .. Len(s)
      BY <1>2
    <3> QED BY <1>2, <3>1, <3>2 DEF ToSet
  <2> QED BY <2>1, <2>2, <2>3
<1>8. ASSUME Head(s) = "save" PROVE t = <<>>
  <2>1. 1 = Len(s)
    <3>1. 1 \in 1 .. Len(s) /\ s[1] = "save"
      BY <1>2, <1>8
    <3> QED BY <3>1 DEF SaveIsLast
  <2>2. Len(t) = 0
    BY <1>1, <2>1
  <2> QED BY <1>1, <2>2, EmptySeq
<1>9. ASSUME NEW x \in ToSet(t)
      PROVE  x \in StepName /\ (Place[x] > 0 => Place[Head(s)] < Place[x])
  <2>1. PICK j \in 2 .. Len(s) : x = s[j]
    BY <1>5
  <2>2. 1 \in 1 .. Len(s) /\ j \in 1 .. Len(s) /\ 1 < j
    BY <1>2
  <2>3. x \in StepName
    BY <2>1, <2>2, ElementOfSeq
  <2> QED BY <1>2, <2>1, <2>2, <2>3 DEF InOrder
<1> QED BY <1>1, <1>3, <1>4, <1>7, <1>8, <1>9 DEF t

(* What a suffix is, by its elements.                                       *)
LEMMA SuffixByElements ==
  ASSUME NEW S, NEW s \in Seq(S), NEW t \in Seq(S)
  PROVE  IsSuffix(s, t) <=>
           /\ Len(s) <= Len(t)
           /\ \A i \in 1 .. Len(s) : s[i] = t[Len(t) - Len(s) + i]
<1>1. Len(s) \in Nat /\ Len(t) \in Nat
  BY LenProperties
<1> DEFINE r == Reverse(s)
           u == Reverse(t)
<1>2. /\ Len(r) = Len(s) /\ \A i \in 1 .. Len(s) : r[i] = s[Len(s) - i + 1]
      /\ Len(u) = Len(t) /\ \A i \in 1 .. Len(t) : u[i] = t[Len(t) - i + 1]
  BY <1>1 DEF Reverse
<1>3. r \in Seq(S) /\ u \in Seq(S)
  <2>1. \A i \in 1 .. Len(s) : s[Len(s) - i + 1] \in S
    BY <1>1
  <2>2. \A i \in 1 .. Len(t) : t[Len(t) - i + 1] \in S
    BY <1>1
  <2> QED BY <1>1, <2>1, <2>2 DEF Reverse
<1> HIDE DEF r, u
<1>4. CASE Len(s) <= Len(t)
  <2> DEFINE a == SubSeq(r, 1, Len(r))
             b == SubSeq(u, 1, Len(r))
  <2>1. /\ a \in Seq(S) /\ Len(a) = Len(s) /\ \A i \in 1 .. Len(s) : a[i] = r[i]
    BY <1>1, <1>2, <1>3
  <2>2. /\ b \in Seq(S) /\ Len(b) = Len(s) /\ \A i \in 1 .. Len(s) : b[i] = u[i]
    BY <1>1, <1>2, <1>3, <1>4
  <2> HIDE DEF a, b
  <2>3. a = b <=> \A i \in 1 .. Len(s) : a[i] = b[i]
    BY <2>1, <2>2, SeqEqual
  <2>4. a = b <=> \A i \in 1 .. Len(s) : s[Len(s) - i + 1] = t[Len(t) - i + 1]
    <3>1. ASSUME NEW i \in 1 .. Len(s)
          PROVE  a[i] = s[Len(s) - i + 1] /\ b[i] = t[Len(t) - i + 1]
      <4>1. i \in 1 .. Len(t)
        BY <1>1, <1>4
      <4> QED BY <4>1, <1>2, <2>1, <2>2
    <3> QED BY <2>3, <3>1
  <2>5. ASSUME a = b, NEW i \in 1 .. Len(s) PROVE s[i] = t[Len(t) - Len(s) + i]
    <3>1. /\ Len(s) - i + 1 \in 1 .. Len(s) /\ Len(s) - (Len(s) - i + 1) + 1 = i
          /\ Len(t) - (Len(s) - i + 1) + 1 = Len(t) - Len(s) + i
      BY <1>1
    <3> QED BY <2>4, <2>5, <3>1
  <2>6. ASSUME \A i \in 1 .. Len(s) : s[i] = t[Len(t) - Len(s) + i], NEW i \in 1 .. Len(s)
        PROVE  s[Len(s) - i + 1] = t[Len(t) - i + 1]
    <3>1. /\ Len(s) - i + 1 \in 1 .. Len(s)
          /\ Len(t) - Len(s) + (Len(s) - i + 1) = Len(t) - i + 1
      BY <1>1
    <3> QED BY <2>6, <3>1
  <2>7. IsSuffix(s, t) <=> a = b
    BY <1>2, <1>4 DEF IsSuffix, IsPrefix, a, b, r, u
  <2> QED BY <1>4, <2>4, <2>5, <2>6, <2>7
<1>5. CASE ~(Len(s) <= Len(t))
  BY <1>2, <1>5 DEF IsSuffix, IsPrefix, r, u
<1> QED BY <1>4, <1>5

(* A sequence, the empty one and what is left of a suffix are suffixes.     *)
LEMMA SuffixOfItself ==
  ASSUME NEW S, NEW s \in Seq(S)
  PROVE  IsSuffix(s, s) /\ IsSuffix(<<>>, s)
<1>1. Len(s) \in Nat
  BY LenProperties
<1>2. <<>> \in Seq(S) /\ Len(<<>>) = 0
  BY EmptySeq
<1>3. IsSuffix(s, s)
  BY <1>1, SuffixByElements
<1>4. ASSUME NEW e \in Seq(S), Len(e) = 0 PROVE IsSuffix(e, s)
  <2>1. Len(e) <= Len(s) /\ \A i \in 1 .. Len(e) : e[i] = s[Len(s) - Len(e) + i]
    BY <1>1, <1>4
  <2> QED BY <2>1, SuffixByElements
<1> QED BY <1>2, <1>3, <1>4

LEMMA SuffixOfTail ==
  ASSUME NEW S, NEW s \in Seq(S), NEW t \in Seq(S), s # <<>>, IsSuffix(s, t)
  PROVE  IsSuffix(Tail(s), t)
<1> DEFINE u == Tail(s)
<1>1. /\ u \in Seq(S) /\ Len(u) = Len(s) - 1 /\ \A i \in 1 .. Len(u) : u[i] = s[i + 1]
  BY HeadTailProperties
<1>2. Len(s) \in Nat \ {0} /\ Len(t) \in Nat
  BY EmptySeq, LenProperties
<1>3. Len(s) <= Len(t) /\ \A i \in 1 .. Len(s) : s[i] = t[Len(t) - Len(s) + i]
  BY SuffixByElements
<1> HIDE DEF u
<1>4. ASSUME NEW i \in 1 .. Len(u) PROVE u[i] = t[Len(t) - Len(u) + i]
  <2>1. i + 1 \in 1 .. Len(s) /\ Len(t) - Len(s) + (i + 1) = Len(t) - Len(u) + i
    BY <1>1, <1>2
  <2> QED BY <1>1, <1>3, <2>1
<1>5. Len(u) <= Len(t)
  BY <1>1, <1>2, <1>3
<1>6. IsSuffix(u, t)
  BY <1>1, <1>4, <1>5, SuffixByElements
<1> QED BY <1>6 DEF u

(***************************************************************************)
(* The lines.                                                              *)
(***************************************************************************)

LEMMA FirstOfConcat ==
  ASSUME NEW S, NEW x \in S, NEW s \in Seq(S)
  PROVE  /\ <<x>> \o s \in Seq(S) /\ <<x>> \o s # <<>>
         /\ Head(<<x>> \o s) = x /\ Tail(<<x>> \o s) = s
<1> DEFINE t == <<x>> \o s
<1>1. <<x>> \in Seq(S) /\ Len(<<x>>) = 1 /\ <<x>>[1] = x
  OBVIOUS
<1>2. /\ t \in Seq(S) /\ Len(t) = Len(s) + 1 /\ t[1] = x
      /\ \A i \in 1 .. Len(s) : t[i + 1] = s[i]
  BY <1>1, ConcatProperties, LenProperties
<1> HIDE DEF t
<1>3. t # <<>> /\ Head(t) = x
  BY <1>2, LenProperties, EmptySeq
<1>4. Tail(t) = s
  <2>1. /\ Tail(t) \in Seq(S) /\ Len(Tail(t)) = Len(s)
        /\ \A i \in 1 .. Len(s) : Tail(t)[i] = s[i]
    BY <1>2, <1>3, LenProperties, HeadTailProperties
  <2> QED BY <2>1, SeqEqual
<1> QED BY <1>2, <1>3, <1>4 DEF t

(* Taking the first line, and writing the next, when s waits and t is to    *)
(* follow.                                                                  *)
LEMMA LineTaken ==
  ASSUME NEW S, NEW s \in Seq(S), NEW t \in Seq(S), s # <<>>
  PROVE  s \o t # <<>> /\ Head(s \o t) = Head(s) /\ Tail(s \o t) = Tail(s) \o t
<1>1. Head(s) \in S /\ Tail(s) \in Seq(S)
  BY HeadTailProperties
<1>2. s = <<Head(s)>> \o Tail(s)
  <2> DEFINE u == <<Head(s)>> \o Tail(s)
  <2>1. <<Head(s)>> \in Seq(S) /\ Len(<<Head(s)>>) = 1 /\ <<Head(s)>>[1] = Head(s)
    BY <1>1
  <2>2. Len(s) \in Nat \ {0} /\ Head(s) = s[1]
    BY EmptySeq
  <2>3. Len(Tail(s)) = Len(s) - 1 /\ \A i \in 1 .. Len(Tail(s)) : Tail(s)[i] = s[i + 1]
    BY HeadTailProperties
  <2>4. /\ u \in Seq(S) /\ Len(u) = Len(s)
        /\ \A i \in 1 .. Len(s) : u[i] = IF i <= 1 THEN <<Head(s)>>[i] ELSE Tail(s)[i - 1]
    BY <1>1, <2>1, <2>2, <2>3, ConcatProperties
  <2> HIDE DEF u
  <2>5. \A i \in 1 .. Len(s) : u[i] = s[i]
    BY <2>1, <2>2, <2>3, <2>4
  <2>6. u = s
    BY <2>4, <2>5, SeqEqual
  <2> QED BY <2>6 DEF u
<1>3. <<Head(s)>> \in Seq(S) /\ Tail(s) \o t \in Seq(S)
  BY <1>1, ConcatProperties
<1>4. s \o t = <<Head(s)>> \o (Tail(s) \o t)
  BY <1>1, <1>2, <1>3, ConcatAssociative
<1> QED BY <1>1, <1>3, <1>4, FirstOfConcat

LEMMA LineWritten ==
  ASSUME NEW S, NEW s \in Seq(S), NEW t \in Seq(S), t # <<>>
  PROVE  Append(s, Head(t)) \o Tail(t) = s \o t
<1>1. Head(t) \in S /\ Tail(t) \in Seq(S) /\ <<Head(t)>> \in Seq(S)
  BY HeadTailProperties
<1>2. Append(s, Head(t)) = s \o <<Head(t)>>
  BY <1>1, AppendIsConcat
<1>3. (s \o <<Head(t)>>) \o Tail(t) = s \o (<<Head(t)>> \o Tail(t))
  BY <1>1, ConcatAssociative
<1>4. <<Head(t)>> \o Tail(t) = t
  <2>1. <<>> \in Seq(S) /\ \A u \in Seq(S) : u \o <<>> = u /\ <<>> \o u = u
    BY EmptySeq, ConcatEmptySeq
  <2> QED BY <1>1, <2>1
<1> QED BY <1>2, <1>3, <1>4

(* Secret k is the first of W that is asked for.                           *)
IsFirst(k, W) ==
  /\ k \in W
  /\ k \in {"container", "volume"} => "share" \notin W
  /\ k = "volume" => "container" \notin W

(* The first line is for the first of them, the others for the others.     *)
LEMMA OrderOfSecrets ==
  ASSUME NEW W \in SUBSET Secret
  PROVE  /\ RunOrder(W) \in Seq(Secret)
         /\ W = {} => RunOrder(W) = <<>>
         /\ \A k \in Secret : IsFirst(k, W) =>
              /\ RunOrder(W) # <<>> /\ Head(RunOrder(W)) = k
              /\ Tail(RunOrder(W)) = RunOrder(W \ {k})
<1> DEFINE s == <<"share">>   c == <<"container">>   v == <<"volume">>   e == <<>>
           B == IF "container" \in W THEN c ELSE e
           C == IF "volume" \in W THEN v ELSE e
<1>1. s \in Seq(Secret) /\ c \in Seq(Secret) /\ v \in Seq(Secret) /\ e \in Seq(Secret)
  BY DEF Secret
<1>2. \A u \in Seq(Secret) : u \o e = u /\ e \o u = u
  BY ConcatEmptySeq
<1>3. B \in Seq(Secret) /\ C \in Seq(Secret) /\ B \o C \in Seq(Secret)
  BY <1>1, ConcatProperties
<1>4. /\ "share" \in W => RunOrder(W) = (s \o B) \o C
      /\ "share" \notin W => RunOrder(W) = (e \o B) \o C
      /\ RunOrder(W \ {"share"}) = (e \o B) \o C
      /\ "share" \notin W => RunOrder(W \ {"container"}) = (e \o e) \o C
      /\ "share" \notin W /\ "container" \notin W => RunOrder(W \ {"volume"}) = (e \o e) \o e
  BY DEF RunOrder, If
<1> HIDE DEF B, C, e, s
<1>5. (s \o B) \o C = s \o (B \o C) /\ (e \o B) \o C = B \o C
  <2>1. (s \o B) \o C = s \o (B \o C)
    BY <1>1, <1>3, ConcatAssociative
  <2> QED BY <2>1, <1>2, <1>3
<1>6. RunOrder(W) \in Seq(Secret)
  BY <1>1, <1>3, <1>4, <1>5, ConcatProperties
<1>7. ASSUME "share" \in W
      PROVE  /\ RunOrder(W) # <<>> /\ Head(RunOrder(W)) = "share"
             /\ Tail(RunOrder(W)) = RunOrder(W \ {"share"})
  <2>1. RunOrder(W) = <<"share">> \o (B \o C)
    BY <1>4, <1>5, <1>7 DEF s
  <2>2. RunOrder(W \ {"share"}) = B \o C
    BY <1>4, <1>5
  <2>3. "share" \in Secret
    BY DEF Secret
  <2> QED BY <1>3, <2>1, <2>2, <2>3, FirstOfConcat
<1>8. ASSUME "share" \notin W, "container" \in W
      PROVE  /\ RunOrder(W) # <<>> /\ Head(RunOrder(W)) = "container"
             /\ Tail(RunOrder(W)) = RunOrder(W \ {"container"})
  <2>1. RunOrder(W) = <<"container">> \o C
    BY <1>4, <1>5, <1>8 DEF B
  <2>2. RunOrder(W \ {"container"}) = C
    BY <1>1, <1>2, <1>3, <1>4, <1>8
  <2>3. "container" \in Secret
    BY DEF Secret
  <2>4. /\ <<"container">> \o C # <<>> /\ Head(<<"container">> \o C) = "container"
        /\ Tail(<<"container">> \o C) = C
    BY <1>3, <2>3, FirstOfConcat
  <2> QED BY <2>1, <2>2, <2>4
<1>9. ASSUME "share" \notin W, "container" \notin W
      PROVE  RunOrder(W) = C
  BY <1>2, <1>3, <1>4, <1>5, <1>9 DEF B
<1>10. ASSUME "share" \notin W, "container" \notin W, "volume" \in W
       PROVE  /\ RunOrder(W) # <<>> /\ Head(RunOrder(W)) = "volume"
              /\ Tail(RunOrder(W)) = RunOrder(W \ {"volume"})
  <2>1. RunOrder(W) = <<"volume">> \o e
    BY <1>1, <1>2, <1>9, <1>10 DEF C
  <2>2. RunOrder(W \ {"volume"}) = e
    BY <1>1, <1>2, <1>4, <1>10
  <2>3. "volume" \in Secret
    BY DEF Secret
  <2>4. /\ <<"volume">> \o e # <<>> /\ Head(<<"volume">> \o e) = "volume"
        /\ Tail(<<"volume">> \o e) = e
    BY <1>1, <2>3, FirstOfConcat
  <2> QED BY <2>1, <2>2, <2>4
<1>11. ASSUME W = {} PROVE RunOrder(W) = <<>>
  BY <1>9, <1>11 DEF C, e
<1>12. ASSUME NEW k \in Secret, IsFirst(k, W)
       PROVE  /\ RunOrder(W) # <<>> /\ Head(RunOrder(W)) = k
              /\ Tail(RunOrder(W)) = RunOrder(W \ {k})
  <2>1. CASE k = "share"
    BY <1>7, <1>12, <2>1 DEF IsFirst
  <2>2. CASE k = "container"
    BY <1>8, <1>12, <2>2 DEF IsFirst
  <2>3. CASE k = "volume"
    BY <1>10, <1>12, <2>3 DEF IsFirst
  <2> QED BY <2>1, <2>2, <2>3 DEF Secret
<1> QED BY <1>6, <1>11, <1>12

(***************************************************************************)
(* The steps, the secrets and the clock when one step is done.             *)
(***************************************************************************)
LEMMA AskFacts ==
  /\ DOMAIN Asks = {"ask_share", "ask_container", "ask_volume"}
  /\ Asks["ask_share"] = "share" /\ Asks["ask_container"] = "container"
  /\ Asks["ask_volume"] = "volume"
  /\ \A x \in DOMAIN Asks : Asks[x] \in Secret
BY DEF Asks, Secret

LEMMA SameSecrets ==
  ASSUME NEW A \in SUBSET Secret, NEW B \in SUBSET Secret,
         "share" \in A <=> "share" \in B, "container" \in A <=> "container" \in B,
         "volume" \in A <=> "volume" \in B
  PROVE  A = B
<1>1. \A k \in Secret : k \in A <=> k \in B
  BY DEF Secret
<1> QED BY <1>1

(* A secret is awaited when its step is still to come.                     *)
LEMMA AwaitedBy ==
  ASSUME NEW s
  PROVE  /\ Awaited(s) \subseteq Secret
         /\ "share" \in Awaited(s) <=> "ask_share" \in ToSet(s)
         /\ "container" \in Awaited(s) <=> "ask_container" \in ToSet(s)
         /\ "volume" \in Awaited(s) <=> "ask_volume" \in ToSet(s)
BY AskFacts DEF Awaited, Secret

LEMMA StepTaken ==
  ASSUME NEW s \in Seq(StepName), s # <<>>, InOrder(s), SaveIsLast(s)
  PROVE  /\ Head(s) \notin DOMAIN Asks => Awaited(Tail(s)) = Awaited(s)
         /\ Head(s) \in DOMAIN Asks =>
              /\ IsFirst(Asks[Head(s)], Awaited(s))
              /\ Awaited(Tail(s)) = Awaited(s) \ {Asks[Head(s)]}
         /\ "boot" \in ToSet(Tail(s)) => "boot" \in ToSet(s) /\ Head(s) \notin {"boot", "setup"}
         /\ "setup" \in ToSet(Tail(s)) => "setup" \in ToSet(s) /\ Head(s) # "setup"
         /\ Head(s) = "setup" => "boot" \notin ToSet(s)
<1> DEFINE t == Tail(s)   h == Head(s)
<1>1. /\ ToSet(s) = {h} \cup ToSet(t) /\ h \in StepName
      /\ \A x \in ToSet(t) : x \in StepName /\ (Place[x] > 0 => Place[h] < Place[x])
  BY TailOfSteps
<1> HIDE DEF t, h
<1>2. /\ h = "ask_share" => "ask_share" \notin ToSet(t)
      /\ h = "ask_container" => "ask_share" \notin ToSet(t) /\ "ask_container" \notin ToSet(t)
      /\ h = "ask_volume" =>
           /\ "ask_share" \notin ToSet(t) /\ "ask_container" \notin ToSet(t)
           /\ "ask_volume" \notin ToSet(t)
      /\ h = "boot" => "boot" \notin ToSet(t)
      /\ h = "setup" => "boot" \notin ToSet(t) /\ "setup" \notin ToSet(t)
  BY <1>1, Places
<1>3. ASSUME h \notin DOMAIN Asks PROVE Awaited(t) = Awaited(s)
  <2>1. h \notin {"ask_share", "ask_container", "ask_volume"}
    BY <1>3, AskFacts
  <2> QED BY <1>1, <2>1, AwaitedBy, SameSecrets
<1>4. ASSUME h \in DOMAIN Asks
      PROVE  IsFirst(Asks[h], Awaited(s)) /\ Awaited(t) = Awaited(s) \ {Asks[h]}
  <2>1. CASE h = "ask_share"
    BY <1>1, <1>2, <2>1, AskFacts, AwaitedBy DEF IsFirst, Secret
  <2>2. CASE h = "ask_container"
    BY <1>1, <1>2, <2>2, AskFacts, AwaitedBy DEF IsFirst, Secret
  <2>3. CASE h = "ask_volume"
    BY <1>1, <1>2, <2>3, AskFacts, AwaitedBy DEF IsFirst, Secret
  <2> QED BY <1>4, <2>1, <2>2, <2>3, AskFacts
<1>5. /\ "boot" \in ToSet(t) => "boot" \in ToSet(s) /\ h \notin {"boot", "setup"}
      /\ "setup" \in ToSet(t) => "setup" \in ToSet(s) /\ h # "setup"
      /\ h = "setup" => "boot" \notin ToSet(s)
  BY <1>1, <1>2
<1> QED BY <1>3, <1>4, <1>5 DEF t, h

(* The child asks for what its parent has collected.                        *)
LEMMA WantsWanted ==
  ASSUME NEW w \in SUBSET Secret
  PROVE  Wants(mountArgs(w)) = w
<1>1. /\ "--ask-share-password" \in mountArgs(w) <=> "share" \in w
      /\ "--luks-container" \in mountArgs(w) <=> "container" \in w
      /\ "--luks-container-entire-drive" \notin mountArgs(w)
      /\ "--luks" \in mountArgs(w) <=> "volume" \in w
  BY DEF mountArgs
<1>2. /\ "share" \in Wants(mountArgs(w)) <=> "share" \in w
      /\ "container" \in Wants(mountArgs(w)) <=> "container" \in w
      /\ "volume" \in Wants(mountArgs(w)) <=> "volume" \in w
      /\ Wants(mountArgs(w)) \subseteq Secret
  BY <1>1 DEF Wants, Secret
<1> QED BY <1>2, SameSecrets

LEMMA Limits ==
  /\ Deadline \in Nat /\ Deadline = SetupTimeout + BootTimeout + 4
  /\ Limit("boot") = BootTimeout /\ Limit("setup") = SetupTimeout
  /\ \A x \in StepName : Limit(x) \in 1 .. Deadline
BY DetachAssumption DEF Deadline, Minute, Limit

(***************************************************************************)
(* Each part of the invariant is kept.                                     *)
(***************************************************************************)

(* The steps after one is done.                                             *)
LEMMA Advances ==
  ASSUME DetachInv, AtStep, Advance, UNCHANGED spec
  PROVE  /\ left' \in Seq(StepName) /\ InOrder(left') /\ SaveIsLast(left')
         /\ IsSuffix(left', Steps(provider', wanted', backend'))
         /\ ToSet(Steps(provider', wanted', backend')) = did' \cup ToSet(left')
         /\ Head(left) = "save" => left' = <<>>
         /\ child # "unborn" /\ left # <<>> /\ left' = Tail(left)
<1>1. left \in Seq(StepName) /\ left # <<>> /\ child = "running"
  BY DEF DetachInv, PlanInv, AtStep
<1>2. Steps(provider, wanted, backend) \in Seq(StepName)
  BY DetachAssumption, StepsInOrder DEF DetachInv, TypeOK
<1>3. IsSuffix(Tail(left), Steps(provider, wanted, backend))
  BY <1>1, <1>2, SuffixOfTail DEF DetachInv, PlanInv
<1>4. /\ left' = Tail(left) /\ did' = did \cup {Head(left)}
      /\ provider' = provider /\ wanted' = wanted /\ backend' = backend
  BY DEF Advance, spec
<1>5. /\ Tail(left) \in Seq(StepName) /\ InOrder(Tail(left)) /\ SaveIsLast(Tail(left))
      /\ ToSet(left) = {Head(left)} \cup ToSet(Tail(left))
      /\ Head(left) = "save" => Tail(left) = <<>>
  BY <1>1, TailOfSteps DEF DetachInv, PlanInv
<1>6. ToSet(Steps(provider, wanted, backend)) = did \cup ToSet(left)
  BY <1>1 DEF DetachInv, PlanInv
<1> QED BY <1>1, <1>3, <1>4, <1>5, <1>6

LEMMA PlanKept ==
  ASSUME DetachInv, [Next]_vars
  PROVE  PlanInv'
<1> USE DEF spec, parentVars, childVars
<1>1. CASE Spawn
  <2>1. /\ left' = Steps(provider, wanted, backend)
        /\ provider' = provider /\ wanted' = wanted /\ backend' = backend
        /\ child' = "running" /\ record' = "none" /\ did' = {} /\ report' = report
    BY <1>1, WantsWanted DEF Spawn, DetachInv, TypeOK, BirthInv
  <2>2. /\ Steps(provider, wanted, backend) \in Seq(StepName)
        /\ InOrder(Steps(provider, wanted, backend)) /\ SaveIsLast(Steps(provider, wanted, backend))
    BY DetachAssumption, StepsInOrder DEF DetachInv, TypeOK
  <2>3. IsSuffix(Steps(provider, wanted, backend), Steps(provider, wanted, backend))
    BY <2>2, SuffixOfItself
  <2>4. report # "up"
    BY <1>1 DEF Spawn, DetachInv, PlanInv, BirthInv
  <2> QED BY <2>1, <2>2, <2>3, <2>4 DEF PlanInv
<1>2. CASE Answer \/ Step \/ Publish
  <2>1. /\ AtStep /\ Advance /\ UNCHANGED <<spec, child, report>>
        /\ record' = record \/ record' = "booting"
    BY <1>2 DEF Answer, Step, Publish, AtStep, IsAsking
  <2>2. child = "running" /\ record # "mounted" /\ report # "up"
    BY <2>1 DEF AtStep, DetachInv, PlanInv
  <2> QED BY <2>1, <2>2, Advances DEF PlanInv
<1>3. CASE Save
  <2>1. AtStep /\ Advance /\ UNCHANGED spec /\ Head(left) = "save" /\ child' = "serving"
    BY <1>3 DEF Save
  <2> QED BY <2>1, Advances DEF PlanInv
<1>4. CASE FindMounted
  BY <1>4 DEF FindMounted, Over, DetachInv, PlanInv
<1>5. CASE Exit
  BY <1>5 DEF Exit, DetachInv, PlanInv
<1>6. CASE NoAnswer \/ Fail \/ TimeOut \/ Crash
  BY <1>6 DEF NoAnswer, IsAsking, Fail, TimeOut, AtStep, ShutsDown, Crash, DetachInv, PlanInv
<1>7. CASE \/ Collect \/ CollectFails \/ SpawnFails \/ WriteLine \/ ClosePipe \/ FindBooting
           \/ FindFails \/ FindStopped \/ Late \/ ParentKilled \/ Tick \/ UNCHANGED vars
  <2>1. UNCHANGED <<spec, left, did, child, record>> /\ (report' = report \/ report' # "up")
    BY <1>7 DEF Collect, CollectFails, SpawnFails, WriteLine, ClosePipe, FindBooting, FindFails,
         FindStopped, Late, ParentKilled, Tick, Over, vars
  <2> QED BY <2>1 DEF DetachInv, PlanInv
<1> QED BY <1>1, <1>2, <1>3, <1>4, <1>5, <1>6, <1>7 DEF Next, ParentStep, ChildStep

LEMMA BirthKept ==
  ASSUME DetachInv, [Next]_vars
  PROVE  BirthInv'
<1> USE DEF spec, parentVars, childVars, timeVars, DetachInv, BirthInv
<1>1. CASE Spawn
  BY <1>1 DEF Spawn
<1>2. CASE WriteLine \/ ClosePipe \/ FindMounted \/ FindBooting \/ FindFails \/ FindStopped
           \/ Late \/ Tick
  BY <1>2 DEF WriteLine, ClosePipe, FindMounted, FindBooting, FindFails, FindStopped, Late,
       Tick, Over
<1>3. CASE Collect \/ CollectFails \/ SpawnFails \/ ParentKilled \/ UNCHANGED vars
  BY <1>3 DEF Collect, CollectFails, SpawnFails, ParentKilled, Over, vars
<1>4. CASE ChildStep
  <2>1. child # "unborn" /\ child' # "unborn" /\ UNCHANGED parent
    BY <1>4 DEF ChildStep, Answer, NoAnswer, IsAsking, Step, Publish, Save, Fail, TimeOut, AtStep,
         ShutsDown, Exit, Crash
  <2> QED BY <2>1
<1> QED BY <1>1, <1>2, <1>3, <1>4 DEF Next, ParentStep

LEMMA ReportKept ==
  ASSUME DetachInv, [Next]_vars
  PROVE  ReportInv'
<1> USE DEF spec, parentVars, childVars, DetachInv, ReportInv
<1>1. CASE ParentStep \/ Tick \/ UNCHANGED vars
  <2>1. CASE FindStopped
    BY <2>1 DEF FindStopped, Over, Listed
  <2>2. CASE FindBooting
    BY <2>2 DEF FindBooting, Listed
  <2>3. CASE Spawn
    BY <2>3 DEF Spawn, BirthInv
  <2>4. CASE \/ Collect \/ CollectFails \/ SpawnFails \/ WriteLine \/ ClosePipe \/ FindMounted
             \/ FindFails \/ Late \/ ParentKilled \/ Tick \/ UNCHANGED vars
    BY <2>4 DEF Collect, CollectFails, SpawnFails, WriteLine, ClosePipe, FindMounted, FindFails,
         Late, ParentKilled, Tick, Over, vars
  <2> QED BY <1>1, <2>1, <2>2, <2>3, <2>4 DEF ParentStep
<1>2. CASE ChildStep
  BY <1>2 DEF ChildStep, Answer, NoAnswer, IsAsking, Step, Publish, Save, Fail, TimeOut, AtStep,
       ShutsDown, Advance, Exit, Crash
<1> QED BY <1>1, <1>2 DEF Next

(* The line the child reads is the secret it asks for, and the lines that   *)
(* follow are those for what is still awaited.                              *)
LEMMA AnsweredRight ==
  ASSUME DetachInv, Answer
  PROVE  /\ Head(pipe) = Asks[Head(left)] /\ Asks[Head(left)] \in Secret
         /\ Awaited(left') = Awaited(left) \ {Asks[Head(left)]}
         /\ \A rest \in Seq(Secret) : pipe \o rest = RunOrder(Awaited(left)) =>
              pipe' \o rest = RunOrder(Awaited(left'))
<1> DEFINE W == Awaited(left)   k == Asks[Head(left)]
<1>1. /\ left \in Seq(StepName) /\ left # <<>> /\ InOrder(left) /\ SaveIsLast(left)
      /\ Head(left) \in DOMAIN Asks /\ left' = Tail(left) /\ child = "running"
      /\ pipe \in Seq(Secret) /\ pipe # <<>> /\ pipe' = Tail(pipe)
  BY DEF DetachInv, PlanInv, TypeOK, Answer, IsAsking, Advance
<1>2. IsFirst(k, W) /\ Awaited(left') = W \ {k}
  BY <1>1, StepTaken
<1>3. W \in SUBSET Secret /\ k \in Secret
  BY <1>1, AwaitedBy, AskFacts
<1> HIDE DEF W, k
<1>4. Head(RunOrder(W)) = k /\ Tail(RunOrder(W)) = RunOrder(W \ {k})
  BY <1>2, <1>3, OrderOfSecrets
<1>5. ASSUME NEW rest \in Seq(Secret), pipe \o rest = RunOrder(W)
      PROVE  Head(pipe) = k /\ pipe' \o rest = RunOrder(Awaited(left'))
  <2>1. Head(pipe \o rest) = Head(pipe) /\ Tail(pipe \o rest) = Tail(pipe) \o rest
    BY <1>1, LineTaken
  <2> QED BY <1>1, <1>2, <1>4, <1>5, <2>1
<1>6. \E rest \in Seq(Secret) : pipe \o rest = RunOrder(W)
  BY <1>1 DEF DetachInv, StreamInv, W
<1>7. Head(pipe) = k
  BY <1>5, <1>6
<1> QED BY <1>2, <1>3, <1>5, <1>7 DEF W, k

(* What a step that asks for nothing changes of it.                         *)
LEMMA NothingAsked ==
  ASSUME DetachInv, Step \/ Publish \/ Save
  PROVE  Awaited(left') = Awaited(left) /\ child # "unborn"
<1>1. /\ AtStep /\ Advance /\ Head(left) \notin DOMAIN Asks
  BY AskFacts DEF Step, Publish, Save
<1>2. /\ left \in Seq(StepName) /\ left # <<>> /\ InOrder(left) /\ SaveIsLast(left)
      /\ left' = Tail(left) /\ child = "running"
  BY <1>1 DEF DetachInv, PlanInv, AtStep, Advance
<1> QED BY <1>1, <1>2, StepTaken

LEMMA StreamKept ==
  ASSUME DetachInv, [Next]_vars
  PROVE  StreamInv'
<1> USE DEF spec, parentVars, childVars, timeVars
<1>0. /\ secrets \in Seq(Secret) /\ todo \in Seq(Secret) /\ pipe \in Seq(Secret)
      /\ wanted \in SUBSET Secret
  BY DEF DetachInv, TypeOK
<1>e. \A u \in Seq(Secret) : u \o <<>> = u /\ <<>> \o u = u
  BY ConcatEmptySeq
<1>1. CASE Collect
  <2>1. /\ parent = "collecting" /\ todo # <<>> /\ child = "unborn"
        /\ UNCHANGED <<parent, child, wanted>>
        /\ secrets' = Append(secrets, Head(todo)) /\ todo' = Tail(todo)
        /\ secrets \o todo = RunOrder(wanted)
    BY <1>1 DEF Collect, DetachInv, BirthInv, StreamInv
  <2>2. Append(secrets, Head(todo)) \o Tail(todo) = secrets \o todo
    BY <1>0, <2>1, LineWritten
  <2> QED BY <2>1, <2>2 DEF StreamInv
<1>2. CASE Spawn
  <2>1. secrets = RunOrder(wanted) /\ pipe = <<>>
    BY <1>0, <1>e, <1>2 DEF Spawn, DetachInv, BirthInv, StreamInv
  <2>2. Awaited(left') = wanted
    <3>1. left' = Steps(provider, wanted, backend)
      BY <1>0, <1>2, WantsWanted DEF Spawn
    <3>2. backend \in {"smb", "ftp", "sftp"}
      BY DetachAssumption DEF DetachInv, TypeOK
    <3> QED BY <1>0, <3>1, <3>2, StepsHave
  <2>3. /\ parent' = "writing" /\ pipe' = pipe /\ secrets' = secrets
    BY <1>2 DEF Spawn
  <2>4. pipe' \o secrets' = RunOrder(Awaited(left')) /\ secrets' \in Seq(Secret)
    BY <1>0, <1>e, <2>1, <2>2, <2>3
  <2> QED BY <2>3, <2>4 DEF StreamInv
<1>3. CASE WriteLine
  <2>1. /\ parent = "writing" /\ parent' = "writing" /\ left' = left /\ secrets # <<>>
        /\ pipe' = Append(pipe, Head(secrets)) /\ secrets' = Tail(secrets)
        /\ pipe \o secrets = RunOrder(Awaited(left))
    BY <1>3 DEF WriteLine, DetachInv, StreamInv
  <2>2. Append(pipe, Head(secrets)) \o Tail(secrets) = pipe \o secrets
    BY <1>0, <2>1, LineWritten
  <2>3. Tail(secrets) \in Seq(Secret)
    BY <1>0, <2>1, HeadTailProperties
  <2>4. pipe' \o secrets' = RunOrder(Awaited(left')) /\ secrets' \in Seq(Secret)
    BY <2>1, <2>2, <2>3
  <2> QED BY <2>1, <2>4 DEF StreamInv
<1>4. CASE Answer
  <2>1. /\ child = "running" /\ UNCHANGED <<parent, secrets>>
    BY <1>4 DEF Answer, IsAsking
  <2>2. parent \notin {"collecting", "spawning"}
    BY <2>1 DEF DetachInv, BirthInv
  <2>3. PICK rest \in Seq(Secret) : pipe \o rest = RunOrder(Awaited(left))
    BY <2>1 DEF DetachInv, StreamInv
  <2>4. pipe' \o rest = RunOrder(Awaited(left'))
    BY <1>4, <2>3, AnsweredRight
  <2>5. ASSUME parent = "writing" PROVE pipe' \o secrets' = RunOrder(Awaited(left'))
    <3>1. pipe \o secrets = RunOrder(Awaited(left))
      BY <2>5 DEF DetachInv, StreamInv
    <3> QED BY <1>0, <1>4, <2>1, <3>1, AnsweredRight
  <2> QED BY <2>1, <2>2, <2>4, <2>5 DEF StreamInv
<1>5. CASE Step \/ Publish \/ Save
  <2>1. Awaited(left') = Awaited(left) /\ child # "unborn"
    BY <1>5, NothingAsked
  <2>2. UNCHANGED <<parent, secrets, todo, wanted, pipe>>
    BY <1>5 DEF Step, Publish, Save
  <2> QED BY <2>1, <2>2 DEF DetachInv, StreamInv
<1>6. CASE CollectFails \/ SpawnFails
  BY <1>6 DEF CollectFails, SpawnFails, Over, DetachInv, BirthInv, StreamInv
<1>7. CASE ClosePipe \/ FindMounted \/ FindFails \/ FindStopped \/ Late \/ ParentKilled
  <2>1. UNCHANGED <<child, left, pipe>> /\ parent' \in {"waiting", "over"}
    BY <1>7 DEF ClosePipe, FindMounted, FindFails, FindStopped, Late, ParentKilled, Over
  <2> QED BY <2>1 DEF DetachInv, StreamInv
<1>8. CASE NoAnswer \/ Fail \/ TimeOut \/ Exit \/ Crash
  <2>1. UNCHANGED <<parent, secrets, todo, wanted, left, pipe>> /\ child # "unborn"
    BY <1>8 DEF NoAnswer, IsAsking, Fail, TimeOut, AtStep, ShutsDown, Exit, Crash
  <2> QED BY <2>1 DEF DetachInv, StreamInv
<1>9. CASE FindBooting \/ Tick \/ UNCHANGED vars
  <2>1. UNCHANGED <<parent, secrets, todo, wanted, left, pipe, child>>
    BY <1>9 DEF FindBooting, Tick, vars
  <2> QED BY <2>1 DEF DetachInv, StreamInv
<1> QED BY <1>1, <1>2, <1>3, <1>4, <1>5, <1>6, <1>7, <1>8, <1>9 DEF Next, ParentStep, ChildStep

LEMMA AnswersKept ==
  ASSUME DetachInv, [Next]_vars
  PROVE  AnswerInv'
<1> USE DEF spec, parentVars, childVars, timeVars
<1>0. got \in [Secret -> Secret \cup {"nothing"}] /\ wanted \in SUBSET Secret
  BY DEF DetachInv, TypeOK
<1>1. CASE Spawn
  <2>1. left' = Steps(provider, wanted, backend) /\ wanted' = wanted /\ got' = got
    BY <1>0, <1>1, WantsWanted DEF Spawn
  <2>2. backend \in {"smb", "ftp", "sftp"}
    BY DetachAssumption DEF DetachInv, TypeOK
  <2>3. Awaited(left') = wanted'
    BY <1>0, <2>1, <2>2, StepsHave
  <2> QED BY <2>1, <2>3 DEF DetachInv, AnswerInv
<1>2. CASE Answer
  <2> DEFINE k == Asks[Head(left)]
  <2>1. /\ got' = [got EXCEPT ![k] = Head(pipe)] /\ wanted' = wanted /\ child = "running"
    BY <1>2 DEF Answer, IsAsking
  <2>2. Head(pipe) = k /\ k \in Secret /\ Awaited(left') = Awaited(left) \ {k}
    BY <1>2, AnsweredRight
  <2> HIDE DEF k
  <2>3. got'[k] = k /\ \A j \in Secret \ {k} : got'[j] = got[j]
    BY <1>0, <2>1, <2>2
  <2>4. \A j \in Secret : got'[j] \in {"nothing", j}
    BY <2>2, <2>3 DEF DetachInv, AnswerInv
  <2>5. \A j \in wanted' : got'[j] = j \/ j \in Awaited(left')
    BY <1>0, <2>1, <2>2, <2>3 DEF DetachInv, AnswerInv
  <2> QED BY <2>4, <2>5 DEF AnswerInv
<1>3. CASE Step \/ Publish \/ Save
  <2>1. Awaited(left') = Awaited(left) /\ child # "unborn"
    BY <1>3, NothingAsked
  <2>2. got' = got /\ wanted' = wanted
    BY <1>3 DEF Step, Publish, Save
  <2> QED BY <2>1, <2>2 DEF DetachInv, AnswerInv
<1>4. CASE NoAnswer \/ Fail \/ TimeOut \/ Exit \/ Crash
  <2>1. UNCHANGED <<got, wanted, left>> /\ child # "unborn"
    BY <1>4 DEF NoAnswer, IsAsking, Fail, TimeOut, AtStep, ShutsDown, Exit, Crash
  <2> QED BY <2>1 DEF DetachInv, AnswerInv
<1>5. CASE \/ Collect \/ CollectFails \/ SpawnFails \/ WriteLine \/ ClosePipe \/ FindMounted
           \/ FindBooting \/ FindFails \/ FindStopped \/ Late \/ ParentKilled \/ Tick
           \/ UNCHANGED vars
  <2>1. UNCHANGED <<got, wanted, left, child>>
    BY <1>5 DEF Collect, CollectFails, SpawnFails, WriteLine, ClosePipe, FindMounted, FindBooting,
         FindFails, FindStopped, Late, ParentKilled, Tick, vars
  <2> QED BY <2>1 DEF DetachInv, AnswerInv
<1> QED BY <1>1, <1>2, <1>3, <1>4, <1>5 DEF Next, ParentStep, ChildStep

LEMMA TimeKept ==
  ASSUME DetachInv, [Next]_vars
  PROVE  TimeInv'
<1> USE DEF spec, parentVars, childVars, timeVars
<1>0. /\ clock \in Nat /\ since \in Nat /\ slow \in Nat
      /\ SetupTimeout \in Nat \ {0} /\ BootTimeout \in Nat \ {0}
  BY DetachAssumption, Limits DEF DetachInv, TypeOK
<1>1. CASE Spawn
  <2>1. clock = 0 /\ slow = 0 /\ since = 0 /\ report # "late"
    BY <1>1 DEF Spawn, DetachInv, BirthInv, TimeInv, Minute
  <2>2. UNCHANGED <<clock, slow, since, report>> /\ left' \in Seq(StepName)
    BY <1>1, PlanKept DEF Spawn, PlanInv
  <2>3. AtStep' => since' <= Limit(Head(left'))
    <3>1. ASSUME left' # <<>> PROVE Head(left') \in StepName
      BY <2>2, <3>1, HeadTailProperties
    <3> QED BY <1>0, <2>1, <2>2, <3>1, Limits DEF AtStep
  <2> QED BY <1>0, <2>1, <2>2, <2>3 DEF TimeInv
<1>2. CASE Answer \/ Step \/ Publish \/ Save
  <2>1. /\ AtStep /\ Advance /\ UNCHANGED <<clock, slow, spec, report>>
    BY <1>2 DEF Answer, Step, Publish, Save, IsAsking, AtStep
  <2>2. /\ since' = 0 /\ left \in Seq(StepName) /\ left # <<>> /\ left' = Tail(left)
        /\ child = "running"
    BY <2>1, Advances DEF Advance, AtStep, DetachInv, PlanInv
  <2>3. /\ "boot" \in ToSet(left') => "boot" \in ToSet(left) /\ Head(left) \notin {"boot", "setup"}
        /\ "setup" \in ToSet(left') => "setup" \in ToSet(left) /\ Head(left) # "setup"
    BY <2>2, StepTaken DEF DetachInv, PlanInv
  <2>4. AtStep' => since' <= Limit(Head(left'))
    <3>1. ASSUME left' # <<>> PROVE Head(left') \in StepName
      <4>1. left' \in Seq(StepName)
        BY <2>1, Advances
      <4> QED BY <3>1, <4>1, HeadTailProperties
    <3> QED BY <2>2, <3>1, Limits DEF AtStep
  <2>5. "setup" \in ToSet(left') => clock' <= slow' + BootTimeout
    BY <1>0, <2>1, <2>2, <2>3 DEF DetachInv, TimeInv
  <2>6. "boot" \in ToSet(left') => clock' <= slow'
    BY <1>0, <2>1, <2>2, <2>3 DEF DetachInv, TimeInv
  <2>7. /\ slow' <= clock' /\ clock' <= slow' + BootTimeout + SetupTimeout
        /\ report' = "late" => slow' >= Minute
    BY <1>0, <2>1 DEF DetachInv, TimeInv
  <2>8. \A x \in {"boot", "setup"} : (IF Head(left') = x THEN since' ELSE 0) = 0
    BY <2>2
  <2>9. /\ "setup" \in ToSet(left') =>
             clock' <= slow' + BootTimeout + (IF Head(left') = "setup" THEN since' ELSE 0)
        /\ "boot" \in ToSet(left') =>
             clock' <= slow' + (IF Head(left') = "boot" THEN since' ELSE 0)
    BY <1>0, <2>1, <2>5, <2>6, <2>8
  <2> QED BY <2>4, <2>7, <2>9 DEF TimeInv
<1>3. CASE NoAnswer \/ Fail \/ TimeOut \/ Exit \/ Crash
  <2>1. child' \in {"stopping", "gone"} /\ UNCHANGED <<clock, slow, report>>
    BY <1>3 DEF NoAnswer, Fail, TimeOut, ShutsDown, Exit, Crash
  <2> QED BY <2>1 DEF DetachInv, TimeInv, AtStep
<1>4. CASE Late
  <2>1. clock = Deadline /\ UNCHANGED <<clock, slow, since, child, left>>
    BY <1>4 DEF Late
  <2>2. slow >= Minute
    BY <1>0, <2>1, Limits DEF DetachInv, TimeInv, Minute
  <2> QED BY <2>1, <2>2 DEF DetachInv, TimeInv, AtStep
<1>5. CASE Tick
  <2> DEFINE b == AtStep /\ Head(left) \notin Unbounded
  <2>1. /\ UNCHANGED <<report, child, left>> /\ clock' = clock + 1
        /\ b => since < Limit(Head(left))
        /\ since' = IF b THEN since + 1 ELSE 0
        /\ slow' = IF AtStep /\ Head(left) \in {"boot", "setup"} THEN slow ELSE slow + 1
    BY <1>5 DEF Tick
  <2>2. "boot" \notin Unbounded /\ "setup" \notin Unbounded
    BY AskFacts DEF Unbounded
  <2>3. /\ left \in Seq(StepName)
        /\ left # <<>> => Head(left) \in StepName /\ Head(left) \in ToSet(left)
    <3>1. left \in Seq(StepName) /\ InOrder(left) /\ SaveIsLast(left)
      BY DEF DetachInv, PlanInv
    <3> QED BY <3>1, TailOfSteps
  <2>4. CASE AtStep /\ Head(left) = "boot"
    <3>1. since < BootTimeout /\ since' = since + 1 /\ slow' = slow
      BY <2>1, <2>2, <2>4, Limits
    <3>2. clock <= slow + since
      BY <2>3, <2>4 DEF DetachInv, TimeInv, AtStep
    <3>3. clock' <= slow' + since' /\ since' <= BootTimeout
      BY <1>0, <2>1, <3>1, <3>2
    <3>4. AtStep' => since' <= Limit(Head(left'))
      BY <2>1, <2>4, <3>3, Limits
    <3> QED BY <1>0, <2>1, <2>4, <3>1, <3>3, <3>4 DEF DetachInv, TimeInv
  <2>5. CASE AtStep /\ Head(left) = "setup"
    <3>1. since < SetupTimeout /\ since' = since + 1 /\ slow' = slow
      BY <2>1, <2>2, <2>5, Limits
    <3>2. clock <= slow + BootTimeout + since
      BY <2>3, <2>5 DEF DetachInv, TimeInv, AtStep
    <3>3. clock' <= slow' + BootTimeout + since' /\ since' <= SetupTimeout
      BY <1>0, <2>1, <3>1, <3>2
    <3>4. AtStep' => since' <= Limit(Head(left'))
      BY <2>1, <2>5, <3>3, Limits
    <3>5. "boot" \notin ToSet(left)
      BY <2>3, <2>5, StepTaken DEF AtStep, DetachInv, PlanInv
    <3> QED BY <1>0, <2>1, <2>5, <3>1, <3>3, <3>4, <3>5 DEF DetachInv, TimeInv
  <2>6. CASE ~(AtStep /\ Head(left) \in {"boot", "setup"})
    <3>1. slow' = slow + 1
      BY <2>1, <2>6
    <3>2. AtStep' /\ Head(left') \notin Unbounded => since' <= Limit(Head(left'))
      <4>1. SUFFICES ASSUME AtStep', Head(left') \notin Unbounded
                     PROVE  since' <= Limit(Head(left'))
        OBVIOUS
      <4>2. b /\ Limit(Head(left)) \in Nat
        BY <2>1, <2>3, <4>1, Limits DEF AtStep
      <4> QED BY <1>0, <2>1, <4>2
    <3>3. ASSUME child = "running" PROVE Head(left) \notin {"boot", "setup"} \/ ToSet(left) = {}
      BY <2>6, <3>3 DEF AtStep, ToSet
    <3>4. child = "running" /\ "setup" \in ToSet(left) => clock' <= slow' + BootTimeout
      BY <1>0, <2>1, <3>1, <3>3 DEF DetachInv, TimeInv
    <3>5. child = "running" /\ "boot" \in ToSet(left) => clock' <= slow'
      BY <1>0, <2>1, <3>1, <3>3 DEF DetachInv, TimeInv
    <3> QED BY <1>0, <2>1, <3>1, <3>2, <3>3, <3>4, <3>5 DEF DetachInv, TimeInv, Minute
  <2> QED BY <2>4, <2>5, <2>6
<1>6. CASE \/ Collect \/ CollectFails \/ SpawnFails \/ WriteLine \/ ClosePipe \/ FindMounted
           \/ FindBooting \/ FindFails \/ FindStopped \/ ParentKilled \/ UNCHANGED vars
  <2>1. /\ UNCHANGED <<clock, slow, since, child, left>>
        /\ report' = report \/ report' # "late"
    BY <1>6 DEF Collect, CollectFails, SpawnFails, WriteLine, ClosePipe, FindMounted, FindBooting,
         FindFails, FindStopped, ParentKilled, Over, vars
  <2> QED BY <2>1 DEF DetachInv, TimeInv, AtStep
<1> QED BY <1>1, <1>2, <1>3, <1>4, <1>5, <1>6 DEF Next, ParentStep, ChildStep

LEMMA TypeKept ==
  ASSUME DetachInv, [Next]_vars
  PROVE  TypeOK'
<1> USE DEF spec, parentVars, childVars, timeVars
<1>1. IsSuffix(left, Steps(provider, wanted, backend))'
  BY PlanKept DEF PlanInv
<1>2. (did \subseteq ToSet(Steps(provider, wanted, backend)))'
  <2>1. BirthInv' /\ PlanInv'
    BY BirthKept, PlanKept
  <2> QED BY <2>1 DEF BirthInv, PlanInv
<1>3. /\ clock \in 0 .. Deadline /\ since \in 0 .. Deadline /\ slow \in 0 .. Deadline
      /\ slow <= clock /\ Deadline \in Nat
  BY Limits DEF DetachInv, TypeOK, TimeInv
<1>4. (clock \in 0 .. Deadline /\ since \in 0 .. Deadline /\ slow \in 0 .. Deadline)'
  <2>1. CASE Tick
    <3>1. /\ clock' = clock + 1 /\ clock < Deadline
          /\ slow' = slow \/ slow' = slow + 1
      BY <2>1 DEF Tick
    <3>2. since' \in 0 .. Deadline
      <4>1. CASE AtStep /\ Head(left) \notin Unbounded
        <5>1. since < Limit(Head(left)) /\ since' = since + 1
          BY <2>1, <4>1 DEF Tick
        <5>2. left \in Seq(StepName) /\ left # <<>>
          BY <4>1 DEF AtStep, DetachInv, PlanInv
        <5>3. Limit(Head(left)) \in 1 .. Deadline
          BY <5>2, HeadTailProperties, Limits
        <5> QED BY <1>3, <5>1, <5>3
      <4>2. CASE ~(AtStep /\ Head(left) \notin Unbounded)
        BY <1>3, <2>1, <4>2 DEF Tick
      <4> QED BY <4>1, <4>2
    <3> QED BY <1>3, <3>1, <3>2
  <2>2. CASE ~Tick
    <3>1. UNCHANGED <<clock, slow>> /\ since' \in {since, 0}
      BY <2>2 DEF Next, ParentStep, ChildStep, Collect, CollectFails, Spawn, SpawnFails,
           WriteLine,
           ClosePipe, FindMounted, FindBooting, FindFails, FindStopped, Late, ParentKilled, Answer,
           NoAnswer, Step, Publish, Save, Fail, TimeOut, ShutsDown, Advance, Exit, Crash, vars
    <3> QED BY <1>3, <3>1
  <2> QED BY <2>1, <2>2
<1>5. (todo \in Seq(Secret) /\ secrets \in Seq(Secret) /\ pipe \in Seq(Secret))'
  <2>0. todo \in Seq(Secret) /\ secrets \in Seq(Secret) /\ pipe \in Seq(Secret)
    BY DEF DetachInv, TypeOK
  <2>1. \A s \in Seq(Secret) : s # <<>> => Head(s) \in Secret /\ Tail(s) \in Seq(Secret)
    BY HeadTailProperties
  <2>2. \A s \in Seq(Secret), k \in Secret : Append(s, k) \in Seq(Secret)
    BY AppendProperties
  <2>3. CASE Collect
    BY <2>0, <2>1, <2>2, <2>3 DEF Collect
  <2>4. CASE WriteLine
    BY <2>0, <2>1, <2>2, <2>4 DEF WriteLine
  <2>5. CASE CollectFails
    BY <2>0, <2>5, EmptySeq DEF CollectFails
  <2>6. CASE Answer
    BY <2>0, <2>1, <2>6 DEF Answer
  <2>7. CASE ~(Collect \/ WriteLine \/ CollectFails \/ Answer)
    <3>1. UNCHANGED <<todo, secrets, pipe>>
      BY <2>7 DEF Next, ParentStep, ChildStep, Spawn, SpawnFails, ClosePipe, FindMounted,
           FindBooting, FindFails, FindStopped, Late, ParentKilled, NoAnswer, Step, Publish, Save,
           Fail, TimeOut, ShutsDown, Exit, Crash, Tick, vars
    <3> QED BY <2>0, <3>1
  <2> QED BY <2>3, <2>4, <2>5, <2>6, <2>7
<1>6. (got \in [Secret -> Secret \cup {"nothing"}])'
  <2>0. got \in [Secret -> Secret \cup {"nothing"}]
    BY DEF DetachInv, TypeOK
  <2>1. CASE Answer
    <3>1. got' = [got EXCEPT ![Asks[Head(left)]] = Head(pipe)]
      BY <2>1 DEF Answer
    <3>2. Head(pipe) \in Secret
      BY <2>1, AnsweredRight
    <3> QED BY <2>0, <3>1, <3>2
  <2>2. CASE ~Answer
    <3>1. got' = got
      BY <2>2 DEF Next, ParentStep, ChildStep, Collect, CollectFails, Spawn, SpawnFails,
           WriteLine,
           ClosePipe, FindMounted, FindBooting, FindFails, FindStopped, Late, ParentKilled,
           NoAnswer, Step, Publish, Save, Fail, TimeOut, ShutsDown, Exit, Crash, Tick, vars
    <3> QED BY <2>0, <3>1
  <2> QED BY <2>1, <2>2
<1>7. (/\ kind \in {"run", "tui"} /\ provider \in {"qemu", "docker"}
       /\ wanted \subseteq Secret /\ backend \in Backends
       /\ parent \in {"collecting", "spawning", "writing", "waiting", "over"}
       /\ report \in {"none", "cancelled", "failed", "up", "stopped", "late", "killed"}
       /\ seen \in BOOLEAN /\ open \in BOOLEAN
       /\ child \in {"unborn", "running", "serving", "stopping", "gone"}
       /\ record \in {"none", "booting", "mounted"})'
  <2> USE DEF DetachInv, TypeOK
  <2>1. CASE ParentStep
    BY <2>1 DEF ParentStep, Collect, CollectFails, Spawn, SpawnFails, WriteLine, ClosePipe,
         FindMounted, FindBooting, FindFails, FindStopped, Late, ParentKilled, Over
  <2>2. CASE ChildStep
    BY <2>2 DEF ChildStep, Answer, NoAnswer, Step, Publish, Save, Fail, TimeOut, ShutsDown,
         Exit, Crash
  <2>3. CASE Tick \/ UNCHANGED vars
    BY <2>3 DEF Tick, vars
  <2> QED BY <2>1, <2>2, <2>3 DEF Next
<1> QED BY <1>1, <1>2, <1>4, <1>5, <1>6, <1>7 DEF TypeOK

LEMMA InvInit == Init => DetachInv
<1> SUFFICES ASSUME Init PROVE DetachInv
  OBVIOUS
<1> USE DEF Init
<1>1. wanted \in SUBSET Secret /\ backend \in {"smb", "ftp", "sftp"}
  BY DetachAssumption
<1>2. RunOrder(wanted) \in Seq(Secret) /\ TuiOrder(wanted) = RunOrder(wanted)
  BY <1>1, OrderOfSecrets DEF RunOrder, TuiOrder
<1>3. Steps(provider, wanted, backend) \in Seq(StepName)
  BY <1>1, StepsInOrder
<1>4. left \in Seq(StepName) /\ InOrder(left) /\ SaveIsLast(left)
  BY DEF InOrder, SaveIsLast
<1>5. IsSuffix(left, Steps(provider, wanted, backend))
  BY <1>3, SuffixOfItself
<1>6. <<>> \in Seq(Secret) /\ <<>> \o RunOrder(wanted) = RunOrder(wanted)
  BY <1>2, ConcatEmptySeq, EmptySeq
<1>7. TypeOK
  <2>1. todo \in Seq(Secret) /\ secrets \in Seq(Secret) /\ pipe \in Seq(Secret)
    BY <1>2, <1>6
  <2>2. got \in [Secret -> Secret \cup {"nothing"}]
    OBVIOUS
  <2>3. clock \in 0 .. Deadline /\ since \in 0 .. Deadline /\ slow \in 0 .. Deadline
    BY Limits
  <2>4. /\ parent \in {"collecting", "spawning", "writing", "waiting", "over"}
        /\ wanted \subseteq Secret /\ did = {}
    OBVIOUS
  <2> QED BY <1>5, <2>1, <2>2, <2>3, <2>4 DEF TypeOK
<1>8. PlanInv
  BY <1>4, <1>5 DEF PlanInv
<1>9. BirthInv /\ ReportInv
  BY DEF BirthInv, ReportInv
<1>10. StreamInv
  BY <1>2, <1>6 DEF StreamInv
<1>11. AnswerInv /\ TimeInv
  BY DetachAssumption DEF AnswerInv, TimeInv, AtStep
<1> QED BY <1>7, <1>8, <1>9, <1>10, <1>11 DEF DetachInv

-----------------------------------------------------------------------------
(* The theorems.                                                            *)

(* The invariant holds for any set of protocols and any timeouts.           *)
THEOREM DetachInvHolds == Spec => []DetachInv
<1>1. DetachInv /\ [Next]_vars => DetachInv'
  BY TypeKept, PlanKept, BirthKept, ReportKept, StreamKept, AnswersKept, TimeKept DEF DetachInv
<1> QED BY InvInit, <1>1, PTL DEF Spec

(* What the parent, the child, the pipe and the clock are at is what they   *)
(* are meant to be (detach.go, session.go).                                 *)
THEOREM TypesHold == Spec => []TypeOK
<1>1. DetachInv => TypeOK
  BY DEF DetachInv
<1> QED BY DetachInvHolds, <1>1, PTL

(* Every prompt of the child is answered with the secret typed for it, and  *)
(* no line is left when its share is up (collectPassphrases and startMount  *)
(* against run and guest.Mount).                                            *)
THEOREM SecretsArrive == Spec => []RightSecret
<1>1. DetachInv => RightSecret
  <2> SUFFICES ASSUME DetachInv, child = "serving"
               PROVE  pipe = <<>> /\ \A k \in wanted : got[k] = k
    BY DEF RightSecret, DetachInv, AnswerInv
  <2>1. left = <<>> /\ child # "unborn" /\ pipe \in Seq(Secret)
    BY DEF DetachInv, PlanInv, TypeOK
  <2>2. Awaited(left) = {}
    BY <2>1 DEF Awaited, ToSet
  <2>3. PICK rest \in Seq(Secret) : pipe \o rest = RunOrder({})
    BY <2>1, <2>2 DEF DetachInv, StreamInv
  <2>4. pipe \o rest = <<>>
    BY <2>3, OrderOfSecrets
  <2>5. pipe = <<>>
    BY <2>1, <2>4, ConcatEqualIffEmpty
  <2> QED BY <2>1, <2>2, <2>5 DEF DetachInv, AnswerInv
<1> QED BY DetachInvHolds, <1>1, PTL

(* "up" is told only of a mount whose disk is mounted and whose share runs, *)
(* "stopped" only of one that is gone (awaitShare, awaitMount).             *)
THEOREM ReportHolds == Spec => []ReportIsTrue
<1>1. DetachInv => ReportIsTrue
  <2> SUFFICES ASSUME DetachInv, report = "up"
               PROVE  {"mount"} \cup ToSet(ShareSteps(backend)) \subseteq did
    BY DEF ReportIsTrue, DetachInv, ReportInv
  <2>1. left = <<>> /\ ToSet(Steps(provider, wanted, backend)) = did \cup ToSet(left)
    BY DEF DetachInv, PlanInv
  <2>2. ToSet(left) = {}
    BY <2>1 DEF ToSet
  <2>3. wanted \in SUBSET Secret /\ backend \in {"smb", "ftp", "sftp"}
    BY DetachAssumption DEF DetachInv, TypeOK
  <2> QED BY <2>1, <2>2, <2>3, StepsHave
<1> QED BY DetachInvHolds, <1>1, PTL

(* "did not come up in time" is told only when a minute or more was spent   *)
(* outside of the boot and the setup, whatever their limits (the deadline   *)
(* of awaitShare).                                                          *)
THEOREM LateOnlyWhenSlow == Spec => []LateMeansSlow
<1>1. DetachInv => LateMeansSlow
  BY DEF DetachInv, TimeInv, LateMeansSlow
<1> QED BY DetachInvHolds, <1>1, PTL
=============================================================================
