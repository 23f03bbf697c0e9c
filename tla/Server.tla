------------------------------- MODULE Server -------------------------------
(***************************************************************************)
(* Remote control over a socket (server.c): the main loop accepts clients  *)
(* and serves each that is readable; a client sends lines, each a command  *)
(* or a search, and waits for the answer to every one of them.             *)
(*                                                                         *)
(* A line is its kind: the password; "safe", a search or a command anyone  *)
(* may run; "unsafe", a command flagged CMD_UNSAFE; "format_print";        *)
(* "idle", a comment, status, or what is no command.  It is sent whole or  *)
(* in two pieces; a piece is [kind, part], and the newline belongs to      *)
(* "whole" and "tail".  Peers send and hang up between any two reads.      *)
(***************************************************************************)
EXTENDS Integers, FiniteSets, Sequences, SequencesExt

CONSTANTS
  MaxClients,  \* bound: connections that are made
  MaxSends     \* bound: lines sent by all clients

VARIABLES
  family,      \* addr.sa.sa_family: "unix" or "inet"
  server_password, \* whether it is set (only read for "inet")
  head,        \* client_head; clients are numbered as they connect
  conns,       \* connections so far
  authenticated,
  wire,        \* what each peer has sent that is not read
  half,        \* the line each peer has begun and not ended
  hung,        \* peers that closed their side
  set,         \* clients in the fd_set of this round of the loop
  item, next,  \* the loop's pointers: a client, or None for the head
  serving,     \* server_serve is under way, for item
  buf,         \* read_commands' buf: the kind of an incomplete line, or None
  only_safe,   \* run_only_safe_commands
  ran,         \* what ran last, and for whom
  proved,      \* history: clients that gave the password
  owed,        \* history: lines a client sent less answers it got
  sends        \* bound: lines that may still be sent

loopVars == <<head, conns, set, item, next>>
serveVars == <<authenticated, serving, buf, only_safe, ran, proved>>
config == <<family, server_password>>
svars == <<config, loopVars, serveVars, wire, half, hung, owed, sends>>

Clients == 1 .. MaxClients
None == 0
Kinds == {"password", "safe", "unsafe", "format_print", "idle"}
NoLine == "none"
Nothing == [by |-> None, cmd |-> NoLine]

ServerInit ==
  /\ family \in {"unix", "inet"} /\ server_password \in (IF family = "unix" THEN {FALSE} ELSE BOOLEAN)
  /\ head = <<>> /\ conns = 0 /\ authenticated = {} /\ set = {} /\ item = None /\ next = None
  /\ wire = [c \in Clients |-> <<>>] /\ half = [c \in Clients |-> NoLine] /\ hung = {}
  /\ serving = FALSE /\ buf = NoLine /\ only_safe = FALSE /\ ran = Nothing
  /\ proved = {} /\ owed = [c \in Clients |-> 0] /\ sends = MaxSends

-----------------------------------------------------------------------------
(* The peers. *)

Ends(part) == part \in {"whole", "tail"}

Send(c, kind, part) ==
  /\ c \in ToSet(head) \ hung
  /\ IF half[c] = NoLine THEN part # "tail" /\ sends > 0 ELSE part = "tail" /\ kind = half[c]
  /\ wire' = [wire EXCEPT ![c] = Append(@, [kind |-> kind, part |-> part])]
  /\ half' = [half EXCEPT ![c] = IF part = "head" THEN kind ELSE NoLine]
  /\ owed' = [owed EXCEPT ![c] = IF Ends(part) THEN @ + 1 ELSE @]
  /\ sends' = IF part = "tail" THEN sends ELSE sends - 1
  /\ UNCHANGED <<config, loopVars, serveVars, hung>>

HangUp(c) ==
  /\ c \in ToSet(head) \ hung
  /\ hung' = hung \cup {c}
  /\ UNCHANGED <<config, loopVars, serveVars, wire, half, owed, sends>>

-----------------------------------------------------------------------------
(* The main loop: select, accept, then the clients in the order of the     *)
(* list.  The successor of a client is read before the client is served,   *)
(* which may remove it.                                                    *)

After(c) == LET i == CHOOSE i \in 1 .. Len(head) : head[i] = c
            IN IF i = Len(head) THEN None ELSE head[i + 1]

(* A client is waiting, or accept fails or none is. *)
server_accept ==
  \/ conns < MaxClients /\ conns' = conns + 1 /\ head' = Append(head, conns')
  \/ UNCHANGED <<conns, head>>

Round ==
  /\ item = None
  /\ set' = {c \in ToSet(head) : wire[c] # <<>> \/ c \in hung}
  /\ server_accept
  /\ conns' # conns \/ set' # {}
  /\ item' = IF head' = <<>> THEN None ELSE head'[1]
  /\ next' = None
  /\ UNCHANGED <<config, serveVars, wire, half, hung, owed, sends>>

(* The loop's body: serve the client or go on. *)
server_serve ==
  /\ item # None /\ ~serving
  /\ IF item \in set
     THEN /\ serving' = TRUE /\ buf' = NoLine /\ next' = After(item)
          /\ only_safe' = (family # "unix")
          /\ authenticated' = authenticated \cup (IF family = "unix" THEN {item} ELSE {})
          /\ UNCHANGED <<item, set>>
     ELSE /\ item' = After(item) /\ set' = IF item' = None THEN {} ELSE set
          /\ UNCHANGED <<next, serving, buf, only_safe, authenticated>>
  /\ UNCHANGED <<config, head, conns, ran, proved, wire, half, hung, owed, sends>>

(* read_commands returns, having closed the client or not. *)
Return ==
  /\ serving' = FALSE /\ only_safe' = FALSE /\ buf' = NoLine
  /\ item' = next /\ next' = None /\ set' = IF next = None THEN {} ELSE set
  /\ UNCHANGED conns

Close ==
  /\ Return
  /\ head' = SelectSeq(head, LAMBDA c : c # item)
  /\ wire' = [wire EXCEPT ![item] = <<>>] /\ half' = [half EXCEPT ![item] = NoLine]
  /\ hung' = hung \ {item} /\ owed' = [owed EXCEPT ![item] = 0]

(* One piece is taken from the socket, and buf is left with b. *)
Take(b) ==
  /\ wire' = [wire EXCEPT ![item] = Tail(@)] /\ buf' = b
  /\ UNCHANGED <<loopVars, serving, only_safe, half, hung>>

Answer ==
  /\ Take(NoLine)
  /\ owed' = [owed EXCEPT ![item] = @ - 1]

(* What the address family allows to run: commands, and format_print,      *)
(* which is answered but prints nothing when it may not run.               *)
run_parsed_command(kind) == kind = "safe" \/ (kind = "unsafe" /\ ~only_safe)
cmd_format_print(kind) == kind = "format_print" /\ ~only_safe
Runs(kind) == run_parsed_command(kind) \/ cmd_format_print(kind)

(* A line of an authenticated client, answered whatever it is; the client  *)
(* is closed when the answer cannot be written.                            *)
Fault_IdleUnanswered(kind) ==
  /\ ran' = IF Runs(kind) THEN [by |-> item, cmd |-> kind] ELSE ran
  /\ IF kind = "idle" THEN Take(NoLine) /\ UNCHANGED owed ELSE Answer
  /\ UNCHANGED <<authenticated, proved>>
Handle(kind) ==
  /\ ran' = IF Runs(kind) THEN [by |-> item, cmd |-> kind] ELSE ran
  /\ Answer \/ (item \in hung /\ Close)
  /\ UNCHANGED <<authenticated, proved>>

(* A line of another client has to be the password. *)
Authenticate(kind) ==
  LET right == server_password /\ kind = "password"
  IN /\ authenticated' = IF right THEN authenticated \cup {item} ELSE authenticated
     /\ proved' = IF right THEN proved \cup {item} ELSE proved
     /\ IF right THEN Answer ELSE Close
     /\ UNCHANGED ran

Line(kind) == IF item \in authenticated THEN Handle(kind) ELSE Authenticate(kind)

(* What the rest of a line may be when its beginning is lost. *)
Rests(kind) == IF kind = "password" THEN Kinds ELSE Kinds \ {"password"}

(* A read.  A line that does not fit in buf leaves no room to read into,   *)
(* and the client is closed.                                               *)
read_commands ==
  /\ serving /\ wire[item] # <<>>
  /\ LET piece == wire[item][1]
     IN \/ piece.part = "head" /\ Take(piece.kind) /\ UNCHANGED <<authenticated, ran, proved, owed>>
        \/ piece.part = "head" /\ Close /\ UNCHANGED <<authenticated, ran, proved>>
        \/ piece.part = "whole" /\ Line(piece.kind)
        \/ /\ piece.part = "tail"
           /\ \E kind \in (IF buf = NoLine THEN Rests(piece.kind) ELSE {piece.kind}) : Line(kind)
  /\ UNCHANGED <<config, sends>>

(* EAGAIN, or the end of the connection. *)
NothingToRead ==
  /\ serving /\ wire[item] = <<>>
  /\ IF item \in hung THEN Close ELSE Return /\ UNCHANGED <<head, wire, half, hung, owed>>
  /\ ran' = Nothing
  /\ UNCHANGED <<config, authenticated, proved, sends>>

ServerNext ==
  \/ \E c \in Clients : HangUp(c)
  \/ \E c \in Clients, kind \in Kinds, part \in {"whole", "head", "tail"} : Send(c, kind, part)
  \/ Round
  \/ server_serve \/ read_commands \/ NothingToRead

ServerSpec == ServerInit /\ [][ServerNext]_svars

-----------------------------------------------------------------------------
Newlines(c) == Len(SelectSeq(wire[c], LAMBDA x : Ends(x.part)))

(* Every line of a client that is still connected is answered exactly      *)
(* once, so that cmus-remote does not hang (server.c:292), also when it    *)
(* came in pieces, is a comment or may not run; the loop goes on with a    *)
(* client that is in the list although the one before was removed; only    *)
(* clients that gave the password run anything over the network, nothing   *)
(* unsafe, and the restriction is lifted when the client is done.          *)
ServerSound ==
  /\ \A c \in ToSet(head) : owed[c] = Newlines(c)
  /\ item # None => item \in ToSet(head)
  /\ authenticated \subseteq (IF family = "unix" THEN Clients ELSE proved)
  /\ ran.by # None => ran.by \in authenticated /\ (family = "inet" => ran.cmd = "safe")
  /\ ~serving => ~only_safe
=============================================================================
