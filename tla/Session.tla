-------------------------------- MODULE Session --------------------------------
(***************************************************************************)
(* The life of a process and of its connection (main.go, the dialling and  *)
(* the keepalive of connector/sftp.go), in whole seconds.                  *)
(*                                                                         *)
(* With SFTP there are three goroutines besides the command: the SSH       *)
(* library's reader, which gives up after Timeout of silence, since each   *)
(* Read moves the deadline; a ticker; and the keepalive, which on a tick   *)
(* sends a request and waits for its answer, however long that takes, and  *)
(* ends the process on an error.  Nothing ever stops it.                   *)
(*                                                                         *)
(* What a goroutine can do at once it does before the next second.  The    *)
(* command, which also works by itself, takes its time.                    *)
(***************************************************************************)
EXTENDS Naturals

CONSTANTS
    BackupTypes,   \* --backup-type
    Timeout,       \* TIMEOUT
    Interval,      \* KEEPALIVE_INTERVAL
    Latency        \* the longest the server takes for an answer

SessionAssumption ==
    /\ BackupTypes \subseteq {"s3", "googlecloudstorage", "sftp", "other"}
    /\ Timeout \in Nat /\ Interval \in Nat \ {0} /\ Latency \in Nat

ASSUME SessionAssumption

VARIABLES
    backupType,
    command,       \* what the command is doing
    exit,          \* "running", or how the process ended
    ssh,           \* the SSH connection: "none", "open" or "closed"
    link,          \* "up", or "cut" when nothing comes from the server any more
    silence,       \* how long the reader has waited in its Read
    ticker,        \* how long it is to the next tick
    tick,          \* "ready" when the ticker's channel holds one, else "none"
    keepalive,     \* the goroutine: "none", "waiting" for a tick, or "sent"
    answerIn,      \* how long the server may still take for it,
    replyIn,       \* and for the request of the command
    cutFor         \* how long ago the link was cut

timers == <<silence, ticker, tick, answerIn, replyIn, cutFor>>
vars == <<backupType, command, exit, ssh, link, keepalive, timers>>

SessionTypeOK ==
    /\ backupType \in BackupTypes
    /\ command \in {"setup", "working", "asking", "closing", "returned"}
    /\ exit \in {"running", "exit 0", "fatal"}
    /\ ssh \in {"none", "open", "closed"} /\ link \in {"up", "cut"}
    /\ silence \in 0..Timeout /\ ticker \in 1..Interval /\ tick \in {"none", "ready"}
    /\ keepalive \in {"none", "waiting", "sent"}
    /\ answerIn \in 0..Latency /\ replyIn \in 0..Latency /\ cutFor \in Nat
    /\ ssh = "none" <=> keepalive = "none"
    /\ command = "setup" => ssh = "none"
    /\ link = "cut" => ssh # "none"

Init ==
    /\ backupType \in BackupTypes
    /\ command = "setup"
    /\ exit = "running"
    /\ ssh = "none" /\ link = "up"
    /\ silence = 0 /\ ticker = Interval /\ tick = "none"
    /\ keepalive = "none"
    /\ answerIn = 0 /\ replyIn = 0 /\ cutFor = 0
--------------------------------------------------------------------------------
Running == exit = "running"

(* An option is wrong ("other" is not among the types of cliSetup), or     *)
(* there is no connection.  The error is logged and the action returns.    *)
SetupFails ==
    /\ Running /\ command = "setup"
    /\ command' = "returned"
    /\ UNCHANGED <<backupType, exit, ssh, link, keepalive, timers>>

(* The S3 and Google Cloud Storage clients connect for each request. *)
ConnectWithoutSession ==
    /\ Running /\ command = "setup"
    /\ backupType \in {"s3", "googlecloudstorage"}
    /\ command' = "working"
    /\ UNCHANGED <<backupType, exit, ssh, link, keepalive, timers>>

(* A mistake to be caught: no keepalive is started. *)
DialUnattended ==
    /\ Running /\ command = "setup"
    /\ backupType = "sftp"
    /\ ssh' = "open"
    /\ command' \in {"working", "returned"}
    /\ UNCHANGED <<backupType, exit, link, keepalive, timers>>

(* DialSSHTimeout; sftp.NewClient may still fail, and then nobody closes. *)
Dial ==
    /\ Running /\ command = "setup"
    /\ backupType = "sftp"
    /\ ssh' = "open"
    /\ keepalive' = "waiting"
    /\ silence' = 0 /\ ticker' = Interval /\ tick' = "none"
    /\ command' \in {"working", "returned"}
    /\ UNCHANGED <<backupType, exit, link, answerIn, replyIn, cutFor>>
--------------------------------------------------------------------------------
(* A request over the session, and its answer; a long download is many. *)
Ask ==
    /\ Running /\ command = "working"
    /\ ssh = "open"
    /\ command' = "asking"
    /\ replyIn' = Latency
    /\ UNCHANGED <<backupType, exit, ssh, link, silence, ticker, tick, keepalive, answerIn, cutFor>>

Reply ==
    /\ Running /\ command = "asking"
    /\ ssh = "open" /\ link = "up"
    /\ command' = "working"
    /\ silence' = 0
    /\ replyIn' = 0
    /\ UNCHANGED <<backupType, exit, ssh, link, ticker, tick, keepalive, answerIn, cutFor>>

(* The error is logged, or dropped, and the command goes on with the next. *)
RequestFails ==
    /\ Running /\ command = "asking"
    /\ ssh = "closed"
    /\ command' = "working"
    /\ replyIn' = 0
    /\ UNCHANGED <<backupType, exit, ssh, link, silence, ticker, tick, keepalive, answerIn, cutFor>>

CommandEnds ==
    /\ Running /\ command = "working"
    /\ command' = "closing"
    /\ UNCHANGED <<backupType, exit, ssh, link, keepalive, timers>>

(* SSHClient is not closed when the closing of SFTPClient fails. *)
Close ==
    /\ Running /\ command = "closing"
    /\ \/ ssh' = ssh
       \/ ssh = "open" /\ ssh' = "closed"
    /\ command' = "returned"
    /\ UNCHANGED <<backupType, exit, link, keepalive, timers>>

Exit ==
    /\ Running /\ command = "returned"
    /\ exit' = "exit 0"
    /\ UNCHANGED <<backupType, command, ssh, link, keepalive, timers>>
--------------------------------------------------------------------------------
SendKeepalive ==
    /\ Running /\ keepalive = "waiting" /\ tick = "ready"
    /\ ssh = "open"
    /\ tick' = "none"
    /\ keepalive' = "sent"
    /\ answerIn' = Latency
    /\ UNCHANGED <<backupType, command, exit, ssh, link, silence, ticker, replyIn, cutFor>>

(* A mistake to be caught: the deadline is set once, when dialling. *)
AnswerWithinDeadline ==
    /\ Running /\ keepalive = "sent"
    /\ ssh = "open" /\ link = "up"
    /\ keepalive' = "waiting"
    /\ answerIn' = 0
    /\ UNCHANGED <<backupType, command, exit, ssh, link, silence, ticker, tick, replyIn, cutFor>>

(* Any answer will do, "unknown request" too. *)
AnswerKeepalive ==
    /\ Running /\ keepalive = "sent"
    /\ ssh = "open" /\ link = "up"
    /\ keepalive' = "waiting"
    /\ silence' = 0
    /\ answerIn' = 0
    /\ UNCHANGED <<backupType, command, exit, ssh, link, ticker, tick, replyIn, cutFor>>

KeepaliveHasFailed ==
    ssh = "closed" /\ (keepalive = "sent" \/ (keepalive = "waiting" /\ tick = "ready"))

(* A mistake to be caught: the goroutine only returns. *)
KeepaliveGivesUp ==
    /\ Running /\ KeepaliveHasFailed
    /\ keepalive' = "waiting" /\ tick' = "none"
    /\ UNCHANGED <<backupType, command, exit, ssh, link, silence, ticker, answerIn, replyIn, cutFor>>

(* log.Fatalf: deferred calls are not run. *)
KeepaliveFails ==
    /\ Running /\ KeepaliveHasFailed
    /\ exit' = "fatal"
    /\ UNCHANGED <<backupType, command, ssh, link, keepalive, timers>>
--------------------------------------------------------------------------------
(* A mistake to be caught: only a command that waits has a deadline. *)
ReadTimesOutAsking ==
    /\ Running /\ ssh = "open" /\ command = "asking"
    /\ silence = Timeout
    /\ ssh' = "closed"
    /\ UNCHANGED <<backupType, command, exit, link, keepalive, timers>>

(* The reader gives up: what is waiting for an answer gets an error. *)
ReadTimesOut ==
    /\ Running /\ ssh = "open"
    /\ silence = Timeout
    /\ ssh' = "closed"
    /\ UNCHANGED <<backupType, command, exit, link, keepalive, timers>>

(* The network is gone, or the server. *)
LinkIsCut ==
    /\ Running /\ ssh = "open" /\ link = "up"
    /\ link' = "cut"
    /\ UNCHANGED <<backupType, command, exit, ssh, keepalive, timers>>

(* What does not take a second: the deadline, an answer in time, the keepalive. *)
Urgent ==
    \/ ssh = "open" /\ silence = Timeout
    \/ ssh = "open" /\ link = "up" /\ command = "asking" /\ replyIn = 0
    \/ ssh = "open" /\ link = "up" /\ keepalive = "sent" /\ answerIn = 0
    \/ keepalive = "waiting" /\ tick = "ready"
    \/ KeepaliveHasFailed

Less(time) == IF time = 0 THEN 0 ELSE time - 1

(* A tick is dropped when the channel still holds the one before. *)
Second ==
    /\ Running /\ ssh # "none" /\ ~Urgent
    /\ silence' = IF ssh = "open" THEN silence + 1 ELSE silence
    /\ ticker' = IF ticker = 1 THEN Interval ELSE ticker - 1
    /\ tick' = IF ticker = 1 THEN "ready" ELSE tick
    /\ answerIn' = Less(answerIn)
    /\ replyIn' = Less(replyIn)
    /\ cutFor' = IF link = "cut" THEN cutFor + 1 ELSE cutFor
    /\ UNCHANGED <<backupType, command, exit, ssh, link, keepalive>>

CommandStep ==
    \/ SetupFails \/ ConnectWithoutSession \/ Dial
    \/ Ask \/ Reply \/ RequestFails \/ CommandEnds \/ Close \/ Exit

SessionStep ==
    \/ SendKeepalive \/ AnswerKeepalive \/ KeepaliveFails \/ ReadTimesOut

Next == CommandStep \/ SessionStep \/ LinkIsCut \/ Second

(* Time passes, and goroutines that can run do; the command need not. *)
Spec == Init /\ [][Next]_vars /\ WF_vars(Reply \/ SessionStep \/ Second)
--------------------------------------------------------------------------------
(***************************************************************************)
(* "this sends keepalive packets every 3 seconds" (sftp.go:86): as long as *)
(* the server answers in time, neither a command that works by itself for  *)
(* long nor one that waits loses its session, nor is the process ended     *)
(* under it.  (Once the command has closed the session, it may be.)        *)
(***************************************************************************)
LiveSessionIsKept ==
    Interval + Latency < Timeout /\ link = "up" /\ backupType = "sftp"
        /\ command \in {"working", "asking", "closing"} =>
            ssh = "open" /\ exit # "fatal"

(***************************************************************************)
(* A process whose server is gone is there no longer than the deadline and *)
(* one more interval, whatever the command is doing: it neither waits for  *)
(* an answer nor works on what it has ("we can just abort", sftp.go:87).   *)
(***************************************************************************)
LossEndsProcess == exit = "running" => cutFor <= Timeout + Interval

(***************************************************************************)
(* And it does end.                                                        *)
(***************************************************************************)
LossIsNoticed == link = "cut" ~> exit # "running"
================================================================================
