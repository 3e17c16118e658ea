------------------------------ MODULE ImClient ------------------------------
(***************************************************************************)
(* The connections of im_client processes (imconn.cpp as im_client.cpp     *)
(* uses it).  Each logs its user in as soon as it is confirmed, sends      *)
(* messages from the timer while it is OPEN, and discards what it          *)
(* receives.  g_route_conn is NULL in this process, for every user id it   *)
(* connects with is not 0.                                                 *)
(***************************************************************************)
EXTENDS ImNet

VARIABLES
  nextId,  \* id of the next message a client sends
  inbox    \* history: the ids of the messages connection c read, in order

clientVars == <<nextId, inbox>>

ClientInit ==
  /\ nextId = 1
  /\ inbox = [c \in Conns |-> <<>>]

ClientTypeOK ==
  /\ nextId \in 1..(MaxMsgs + 1)
  /\ inbox \in [Conns -> Seq(Messages)]

-----------------------------------------------------------------------------

\* Connect() with the user id of this connection.
CliConnect(c) ==
  /\ cli[c] = "IDLE"
  /\ cli' = [cli EXCEPT ![c] = "CONNECTING"]
  /\ UNCHANGED <<processes, channels, imConn, link, rlink, clientVars>>

\* OnConfirm() with m_userId # 0: log in.
CliConfirm(c) ==
  /\ cli[c] = "CONNECTING"
  /\ up[ServerOf[c]] = "up"
  /\ c2s' = [c2s EXCEPT ![c] = Append(@, Online(UserOf[c]))]
  /\ cli' = [cli EXCEPT ![c] = "OPEN"]
  /\ UNCHANGED <<processes, s2c, s2r, r2s, imConn, link, rlink, clientVars>>

\* imconn_timer_callback() picked this connection: OnTimer().
CliTimer(c, to) ==
  /\ cli[c] = "OPEN"
  /\ nextId <= MaxMsgs
  /\ c2s' = [c2s EXCEPT ![c] = Append(@, Msg(c, to, nextId))]
  /\ nextId' = nextId + 1
  /\ UNCHANGED <<processes, s2c, s2r, r2s, endpoints, inbox>>

\* Mutant: recv() = 0 is taken for data.
Bug_CliRead_Eof(c) ==
  /\ cli[c] = "OPEN"
  /\ s2c[c] # <<>>
  /\ s2c' = [s2c EXCEPT ![c] = Tail(@)]
  /\ inbox' = [inbox EXCEPT ![c] = Append(@, Head(s2c[c]))]
  /\ UNCHANGED <<processes, c2s, s2r, r2s, endpoints, nextId>>

\* OnRead(): HandleMsg() of a CONN_TYPE_IM_CLIENT connection discards.
CliRead(c) ==
  /\ cli[c] = "OPEN"
  /\ s2c[c] # <<>>
  /\ Head(s2c[c]).type = "msg"
  /\ \E rest \in Drained(s2c[c]) : s2c' = [s2c EXCEPT ![c] = rest]
  /\ inbox' = [inbox EXCEPT ![c] = Append(@, Head(s2c[c]))]
  /\ UNCHANGED <<processes, c2s, s2r, r2s, endpoints, nextId>>

\* OnClose(): refused, or the im_server is gone.
CliClose(c) ==
  /\ \/ cli[c] = "CONNECTING" /\ imConn[c] = "IDLE"
     \/ /\ cli[c] \in {"CONNECTING", "OPEN"}
        /\ PeerGone(s2c[c], c2s[c], imConn[c])
  /\ cli' = [cli EXCEPT ![c] = "FREED"]
  /\ c2s' = [c2s EXCEPT ![c] = <<>>]
  /\ s2c' = [s2c EXCEPT ![c] = <<>>]
  /\ UNCHANGED <<processes, s2r, r2s, imConn, link, rlink, clientVars>>

\* The process ends.
CliKill(c, keep) ==
  /\ cli[c] \in {"CONNECTING", "OPEN"}
  /\ cli' = [cli EXCEPT ![c] = "FREED"]
  /\ c2s' = [c2s EXCEPT ![c] = IF imConn[c] = "FREED" \/ up[ServerOf[c]] # "up" THEN <<>>
                                 ELSE Hangup(@, keep)]
  /\ s2c' = [s2c EXCEPT ![c] = <<>>]
  /\ UNCHANGED <<processes, s2r, r2s, imConn, link, rlink, clientVars>>

ClientNext ==
  \E c \in Conns : \/ CliConnect(c) \/ CliConfirm(c)
                   \/ \E to \in Targets : CliTimer(c, to)
                   \/ CliRead(c) \/ CliClose(c)
                   \/ \E keep \in 0..Len(c2s[c]) : CliKill(c, keep)
=============================================================================
