--------------------------- MODULE MCConnections ----------------------------
(* What goes on until it is done: a deletion, the connections to the       *)
(* relays of contacts and to our own, a stream, and the rules on a gateway. *)
EXTENDS DmDeletion, PeerRelays, I2pStream, Upnp

VARIABLE part    \* the component that runs

connectionsVars == <<part, vars, peerVars, relayVars, streamVars, upnpVars,
                     transportVars>>

Runs(p) == part = p

ConnectionsInit ==
    /\ part \in {"deletion", "peers", "relay", "stream", "upnp", "transport"}
    /\ Init /\ PeerRelaysInit /\ OwnRelayInit /\ StreamInit /\ UpnpInit /\ TransportInit
    /\ part # "peers" => recorded = (CHOOSE a \in Places : TRUE) /\ inNetwork
    /\ part # "relay" => mode = "builtin"
    /\ AnySlot \in wanted    \* the others differ by the names of the slots
    /\ near \notin PermanentOnly => wanted = {AnySlot} /\ table[near] = [s \in Slots |-> Empty]
    /\ part # "upnp" => wanted = Slots /\ near = (CHOOSE g \in Gateways : TRUE) /\ table[near] = [s \in Slots |-> Empty]

ConnectionsNext ==
    /\ UNCHANGED part
    /\ \/ part = "deletion" /\ Next /\ UNCHANGED <<peerVars, relayVars, streamVars, upnpVars, transportVars>>
       \/ part = "peers" /\ PeerRelaysNext /\ UNCHANGED <<vars, relayVars, streamVars, upnpVars, transportVars>>
       \/ part = "relay" /\ OwnRelayNext /\ UNCHANGED <<vars, peerVars, streamVars, upnpVars, transportVars>>
       \/ part = "stream" /\ StreamNext /\ UNCHANGED <<vars, peerVars, relayVars, upnpVars, transportVars>>
       \/ part = "upnp" /\ UpnpNext /\ UNCHANGED <<vars, peerVars, relayVars, streamVars, transportVars>>
       \/ part = "transport" /\ TransportNext /\ UNCHANGED <<vars, peerVars, relayVars, streamVars, upnpVars>>

\* The fairness of each component, while it is the one that runs.
ConnectionsFairness ==
    /\ \A p \in Peers :
           /\ WF_vars(Runs("deletion") /\ SendDelete(p)) /\ WF_vars(Runs("deletion") /\ SendOk(p))
           /\ WF_vars(Runs("deletion") /\ (\E l \in net[p] : ReceiveDelete(p, l)))
           /\ WF_vars(Runs("deletion") /\ (\E l \in net[p] : ReceiveOk(p, l)))
           /\ WF_vars(Runs("deletion") /\ (\E l \in net[p] : ReceiveOkReceipt(p, l)))
    /\ \A d \in Dialers : /\ WF_peerVars(Runs("peers") /\ DialerStep(d))
                          /\ WF_peerVars(Runs("peers") /\ dialer[d].pc = "open" /\ dialer[d].a \notin answering
                                         /\ ConnectionLost(d))
    /\ \A a \in Places : WF_peerVars(Runs("peers") /\ BackoffOver(a)) /\ WF_peerVars(Runs("peers") /\ RedialDue(a))
                        /\ WF_peerVars(Runs("peers") /\ HintArrives(a))
                        /\ WF_peerVars(Runs("peers") /\ LookupAnswers(a))
    /\ WF_peerVars(Runs("peers") /\ RoundStep) /\ WF_peerVars(Runs("peers") /\ RetryDue)
    /\ SF_peerVars(Runs("peers") /\ RoundBegins /\ BackingOff(recorded))
    /\ SF_peerVars(Runs("peers") /\ RoundAsksRelay /\ BackingOff(round.a))
    /\ SF_peerVars(Runs("peers") /\ RoundSettles /\ BackingOff(round.a))
    /\ \A c \in Switches : WF_relayVars(Runs("relay") /\ SwitchStep(c))
    /\ \A i \in Starts : WF_relayVars(Runs("relay") /\ BringStep(i))
    /\ WF_relayVars(Runs("relay") /\ DialOwn)
    /\ WF_relayVars(Runs("relay") /\ DialEnds)
    /\ WF_relayVars(Runs("relay") /\ PingTick)
    /\ WF_relayVars(Runs("relay") /\ BackUp)
    /\ WF_streamVars(Runs("stream") /\ reader = "runnable" /\ \E n \in 1 .. ReadBuf : PollRead(n))
    /\ WF_streamVars(Runs("stream") /\ (\E n \in 1 .. ReadBuf : OnRead(n)))
    /\ WF_streamVars(Runs("stream") /\ OnReadEnd)
    /\ WF_streamVars(Runs("stream") /\ writer.pc = "runnable" /\ (PollWrite \/ PollFlush))
    /\ WF_streamVars(Runs("stream") /\ (\E failed \in BOOLEAN : OnSent(failed)))
    /\ WF_upnpVars(Runs("upnp") /\ CycleDisabled)
    /\ WF_upnpVars(Runs("upnp") /\ CycleMaintain)
    /\ WF_upnpVars(Runs("upnp") /\ CycleDiscover)
    /\ WF_upnpVars(Runs("upnp") /\ ReleaseDone)
    /\ WF_upnpVars(Runs("upnp") /\ MaintainDone)
    /\ WF_upnpVars(Runs("upnp") /\ SettleJournal)
    /\ WF_upnpVars(Runs("upnp") /\ Shutdown)
    /\ WF_upnpVars(Runs("upnp") /\ ShutdownDone)
    /\ WF_upnpVars(Runs("upnp") /\ Add)
    /\ WF_upnpVars(Runs("upnp") /\ Confirm)
    /\ \A s \in Slots : WF_upnpVars(Runs("upnp") /\ ReleaseOne(s)) /\ WF_upnpVars(Runs("upnp") /\ Query(s))
    /\ \A t \in Requesters : WF_transportVars(Runs("transport") /\ TransportStep(t))

ConnectionsSpec == ConnectionsInit /\ [][ConnectionsNext]_connectionsVars /\ ConnectionsFairness

\* The properties of each component.  What must happen in the end is asked of
\* the behaviours in which the component runs.

\* A deletion for both reaches the other side, and its reports end (dm.rs).
DeletionReaches == Runs("deletion") => DeletionArrives

\* A letter reaches a contact whose relay moves (session.rs).
PeerLetterArrives == []PeerRelaysTypeOK /\ (Runs("peers") => LetterArrives)

\* The main connection follows the relay in use (core.rs), and the requests
\* of a relay leave a destination that is dead (core/relay/src/dht.rs).
OwnRelayFollowed ==
    /\ (Runs("relay") => ConnectionFollows)
    /\ (Runs("transport") => LostIsGivenUp)

\* A stream hands out what came, in order, and drains (i2p-embed).
StreamDelivers == []BytesInOrder /\ (Runs("stream") => StreamDrains)

\* A rule without a lease is in the journal, and one left behind goes
\* (upnp.rs).
RulesAreOwned ==
    /\ []UpnpTypeOK
    /\ []PermanentIsJournalled
    /\ (Runs("upnp") => StaleRuleGoes)
=============================================================================
