---------------------------- MODULE EPollPoller ----------------------------
(***************************************************************************)
(* The channels of one poller, driven by any sequence of the calls their   *)
(* owners may make (src/src/EPollPoller.cc, src/include/Channel.h).        *)
(***************************************************************************)
EXTENDS Channel

CONSTANT Fds        \* the descriptors, one Channel each

VARIABLE channel    \* fd -> its Channel

Init == channel = [fd \in Fds |-> NewChannel]

Becomes(fd, ch) == channel' = [channel EXCEPT ![fd] = ch]

Next ==
  \E fd \in Fds :
    \/ Becomes(fd, EnableET(channel[fd]))
    \/ Becomes(fd, EnableReading(channel[fd]))
    \/ Becomes(fd, DisableReading(channel[fd]))
    \/ Becomes(fd, EnableWriting(channel[fd]))
    \/ Becomes(fd, DisableWriting(channel[fd]))
    \/ Becomes(fd, DisableAll(channel[fd]))
    \/ Becomes(fd, Remove(channel[fd]))

Spec == Init /\ [][Next]_channel

TypeOK == channel \in [Fds -> ChannelType]

\* No epoll_ctl call of updateChannel or removeChannel can fail with EEXIST or
\* ENOENT, and channels_ holds exactly the channels that were not removed,
\* after any sequence of calls.
MarksAgreeWithKernel == \A fd \in Fds : ChannelOK(channel[fd])

\* A mask is stale only in ET, the one event that is set without update(): the
\* kernel always knows whether the owner wants to read and to write.
MaskCurrent ==
  \A fd \in Fds : channel[fd].registered =>
    channel[fd].mask \ {"ET"} = channel[fd].events \ {"ET"}
=============================================================================
