------------------------------- MODULE Loop -------------------------------
(***************************************************************************)
(* A node's Olcb_loop() with Datagram, Configuration, PIP and SNII, which  *)
(* share one transmit buffer, and tools that ask it.  A pass hears at most *)
(* one frame and then lets each object send if it can, always in the same  *)
(* order; interrupts move frames between any two of these steps.  A tool   *)
(* asks again only when it has its answer.  Crashes, losses and enquiries  *)
(* are left to Datagram.                                                   *)
(*                                                                         *)
(* Of the requests to Configuration, those that it replies to, reads, are  *)
(* datagrams of one fragment here.  The commands, of two, only get their   *)
(* acknowledgement: writes, and those for which there is no handler.       *)
(***************************************************************************)
EXTENDS Datagram

CONSTANTS
  Server,      \* the node
  SniiFrames,  \* frames of its node information
  Wants,       \* what each tool may ask for
  MaxAsks      \* bound on what the tools ask

ASSUME LoopAssumption ==
  Server \in Node /\ SniiFrames \in Nat \ {0} /\ MaxAsks \in Nat

Tool == Node \ {Server}
Asks == {"read", "command", "pip", "snii"}

ASSUME WantsAssumption == Wants \in [Tool -> SUBSET Asks]

VARIABLES
  phase,       \* where the pass is
  cfg,         \* Configuration: the request to be processed, or None
  pip,         \* PIP: who waits for the reply, or None
  snii,        \* SNII: the number of frames sent, and to whom
  waiting,     \* what a tool waits for
  heard,       \* how many frames of node information it has got
  overtaken    \* history: tools whose request another one's took the place of

server == <<phase, cfg, pip, snii>>
tools == <<waiting, heard>>
lvars == <<vars, server, tools, overtaken>>

Done == [sent |-> SniiFrames, dest |-> None]

LoopInit ==
  /\ Init
  /\ phase = "receive" /\ cfg = None /\ pip = None /\ snii = Done
  /\ waiting = [t \in Tool |-> "nothing"] /\ heard = [t \in Tool |-> 0]
  /\ overtaken = {}

(* A step that only puts f, an OpenLCB message, into n's buffer. *)
Say(n, f) ==
  /\ Queue(n, f)
  /\ UNCHANGED <<dg, on, rx, hist>>

Then(p) == phase' = p

Size == [read |-> 1, command |-> 2]

----------------------------------------------------------------------------
(* A tool asks, ... *)
Ask(t, what) ==
  /\ waiting[t] = "nothing" /\ ~dg[t].reserved
  /\ count.send < MaxAsks
  /\ IF what \in DOMAIN Size
     THEN Send(t, Server, Size[what])
     ELSE /\ Say(t, Reply(what, t, Server))
          /\ count' = [count EXCEPT !.send = @ + 1]
  /\ waiting' = [waiting EXCEPT ![t] = IF what = "command" THEN "nothing" ELSE what]
  /\ heard' = [heard EXCEPT ![t] = 0]
  /\ UNCHANGED <<server, overtaken>>

(* ... and hears: a reply to a read, or a frame of another answer. *)
ToolReceive(t) ==
  /\ rx[t] # << >>
  /\ LET f == Head(rx[t])
     IN  IF f.kind \in {"SNII", "PIP", "OIR"}
         THEN /\ rx' = [rx EXCEPT ![t] = Tail(@)]
              /\ heard' = [heard EXCEPT ![t] = IF f.kind = "SNII" THEN f.i ELSE @]
              /\ waiting' = IF f.kind = "SNII" /\ f.i < SniiFrames THEN waiting
                            ELSE [waiting EXCEPT ![t] = "nothing"]
              /\ UNCHANGED <<dg, hdr, on, tx, count, hist>>
         ELSE /\ Receive(t)
              /\ waiting' = IF delivered' # delivered THEN [waiting EXCEPT ![t] = "nothing"]
                            ELSE waiting
              /\ UNCHANGED heard
  /\ UNCHANGED <<server, overtaken>>

----------------------------------------------------------------------------
(* The node's pass: a frame is received, if there is one.                  *)
HearNothing ==
  /\ rx[Server] = << >>
  /\ UNCHANGED <<vars, cfg, pip, snii, overtaken>>

(* PIP_receivedFrame(): the last one who asks gets the reply. *)
HearPip(f) ==
  /\ f.kind = "pip"
  /\ pip' = f.src
  /\ overtaken' = overtaken \cup ({pip} \ {None, f.src})
  /\ UNCHANGED <<dg, hdr, tx, hist, cfg, snii>>

(* Mutant: a new request takes the place of the answer being sent. *)
HearSniiTakesOver(f) ==
  /\ f.kind = "snii"
  /\ snii' = [sent |-> 0, dest |-> f.src]
  /\ UNCHANGED <<dg, hdr, tx, hist, cfg, pip, overtaken>>

(* SNII_receivedFrame(): starts the answer, or rejects while one is sent. *)
HearSnii(f) ==
  /\ f.kind = "snii"
  /\ \/ /\ snii.sent = SniiFrames
        /\ snii' = [sent |-> 0, dest |-> f.src]
        /\ UNCHANGED <<hdr, tx>>
     \/ /\ snii.sent < SniiFrames
        /\ Queue(Server, Reply("OIR", Server, f.src))
        /\ UNCHANGED snii
  /\ UNCHANGED <<dg, hist, cfg, pip, overtaken>>

(* The request c still to be processed is one of t that is replied to. *)
Asked(c, t) == c # None /\ c.size = Size["read"] /\ c.by = t

(* Datagram::receivedFrame(), its callback Configuration::receivedDatagram(): *)
(* it does not look whether there still is a request to be processed.      *)
HearDatagram ==
  /\ Receive(Server)
  /\ IF delivered' = delivered THEN UNCHANGED <<cfg, overtaken>>
     ELSE /\ cfg' = Head(rx[Server]).body
          /\ overtaken' = overtaken \cup {t \in Tool : Asked(cfg, t)}
  /\ UNCHANGED <<pip, snii>>

Hear ==
  /\ phase = "receive" /\ Then("datagram")
  /\ \/ HearNothing
     \/ HearDatagram
     \/ /\ rx[Server] # << >> /\ rx' = [rx EXCEPT ![Server] = Tail(@)]
        /\ LET f == Head(rx[Server]) IN HearPip(f) \/ HearSnii(f)
        /\ UNCHANGED <<on, count>>
  /\ UNCHANGED tools

(* dg.check() *)
DatagramCheck ==
  /\ phase = "datagram" /\ Then("configuration")
  /\ \/ Check(Server)
     \/ ~(dg[Server].left > 0 /\ XmtReady(Server)) /\ UNCHANGED vars
  /\ UNCHANGED <<cfg, pip, snii, tools, overtaken>>

(* cfg.check(): a write is done at once, a read when the datagram buffer   *)
(* is to be had, and what has no handler stays, as if it were still to be  *)
(* processed.                                                              *)
Respond(b) ==
  \/ b.size = Size["command"] /\ UNCHANGED dg
  \/ /\ b.size = Size["read"] /\ ~dg[Server].reserved
     /\ dg' = [dg EXCEPT ![Server].reserved = TRUE, ![Server].left = 2,
                         ![Server].tbuf = [by |-> Server, no |-> b.no, to |-> b.by, size |-> 2]]
ConfigurationCheck ==
  /\ phase = "configuration" /\ Then("pip")
  /\ \/ /\ cfg # None
        /\ Respond(cfg)
        /\ cfg' = None
     \/ /\ cfg # None => cfg.size = Size["command"] \/ dg[Server].reserved
        /\ UNCHANGED <<dg, cfg>>
  /\ UNCHANGED <<net, hist, pip, snii, tools, overtaken>>

(* Mutant: the request is not cleared. *)
PipCheckAgain ==
  /\ phase = "pip" /\ Then("snii")
  /\ \/ /\ pip # None
        /\ Say(Server, Reply("PIP", Server, pip))
        /\ UNCHANGED count
     \/ /\ pip = None \/ ~XmtReady(Server)
        /\ UNCHANGED vars
  /\ UNCHANGED <<cfg, pip, snii, tools, overtaken>>

(* PIP_check() *)
PipCheck ==
  /\ phase = "pip" /\ Then("snii")
  /\ \/ /\ pip # None
        /\ Say(Server, Reply("PIP", Server, pip))
        /\ pip' = None
        /\ UNCHANGED count
     \/ /\ pip = None \/ ~XmtReady(Server)
        /\ UNCHANGED <<vars, pip>>
  /\ UNCHANGED <<cfg, snii, tools, overtaken>>

(* Mutant: a frame for which there is no room is passed over. *)
SniiCheckDrops ==
  /\ phase = "snii" /\ Then("receive")
  /\ snii' = [snii EXCEPT !.sent = IF @ < SniiFrames THEN @ + 1 ELSE @]
  /\ \/ /\ snii.sent < SniiFrames
        /\ Say(Server, [kind |-> "SNII", src |-> Server, dst |-> snii.dest, i |-> snii.sent + 1])
        /\ UNCHANGED count
     \/ /\ snii.sent = SniiFrames \/ ~XmtReady(Server)
        /\ UNCHANGED vars
  /\ UNCHANGED <<cfg, pip, tools, overtaken>>

(* SNII_check(): one frame of it. *)
SniiCheck ==
  /\ phase = "snii" /\ Then("receive")
  /\ \/ /\ snii.sent < SniiFrames
        /\ Say(Server, [kind |-> "SNII", src |-> Server, dst |-> snii.dest, i |-> snii.sent + 1])
        /\ snii' = [snii EXCEPT !.sent = @ + 1]
        /\ UNCHANGED count
     \/ /\ snii.sent = SniiFrames \/ ~XmtReady(Server)
        /\ UNCHANGED <<vars, snii>>
  /\ UNCHANGED <<cfg, pip, tools, overtaken>>

Pass == Hear \/ DatagramCheck \/ ConfigurationCheck \/ PipCheck \/ SniiCheck

ToolCheck(t) == Check(t) /\ UNCHANGED <<server, tools, overtaken>>
Carry(n) == Bus(n) /\ UNCHANGED <<server, tools, overtaken>>

LoopNext ==
  \/ Pass
  \/ \E t \in Tool :
       \/ \E what \in Wants[t] : Ask(t, what)
       \/ ToolCheck(t) \/ ToolReceive(t)
  \/ \E n \in Node : Carry(n)

LoopSpec == LoopInit /\ [][LoopNext]_lvars

LoopFair ==
  /\ LoopSpec
  /\ WF_lvars(Pass)
  /\ WF_lvars(Carry(Server))
  /\ \A t \in Tool : WF_lvars(ToolCheck(t) \/ ToolReceive(t) \/ Carry(t))

----------------------------------------------------------------------------
(* Who gets an answer has asked for it, and has not had it yet: the        *)
(* destinations kept by Datagram, PIP and SNII are never mixed up.         *)
Answers(t) ==
  {f \in {tx[Server][k] : k \in DOMAIN tx[Server]} \cup {rx[t][k] : k \in DOMAIN rx[t]} :
     f.src = Server /\ f.dst = t}
AnswersFit ==
  \A t \in Tool : \A f \in Answers(t) :
    /\ f.kind \in {"SNII", "OIR"} => waiting[t] = "snii"
    /\ f.kind = "PIP" => waiting[t] = "pip"
    /\ f.kind = "SNII" => f.i > heard[t]
    /\ IsFragment(f) => waiting[t] = "read"

(* Node information comes without gaps, whatever else is sent between.     *)
NoGap == [][\A t \in Tool : heard'[t] \in {0, heard[t], heard[t] + 1}]_heard

(* All tools get their answers, once they ask no more, unless another      *)
(* tool's request has taken the place of one's own, in PIP or, with three  *)
(* tools, in Configuration.                                                *)
EveryoneAnswered == <>[](\A t \in Tool : waiting[t] = "nothing" \/ t \in overtaken)
============================================================================
