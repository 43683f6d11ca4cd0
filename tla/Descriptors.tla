---------------------------- MODULE Descriptors ----------------------------
(***************************************************************************)
(* How a data message gets its decoder.  Devices announce the version of   *)
(* their libraries; the parser decodes a message with the .proto of that   *)
(* version and of the message's network, which it downloads, keeps in a    *)
(* cache on disk and compiles when it first needs it.  A network whose     *)
(* .proto cannot be had is blacklisted for the session.                    *)
(*                                                                         *)
(* Two threads act: paho's ("network": MsgDispatcher.handle_version_message)*)
(* and the parser's (Parser.parse_msg, ProtobufManager).  A session ends   *)
(* and another begins with a new Parser; the process may crash; only the   *)
(* cache outlives both.                                                    *)
(***************************************************************************)
EXTENDS Naturals

CONSTANTS
  Devices,    \* the vehicle/device pairs the whitelist lets through
  Networks,   \* the networks they send data on
  Gps,        \* the network "gps", the only one of the GPS library
  Excluded,   \* Configuration's excluded_networks
  Versions,   \* commit hashes
  NoVersion,  \* what dict.get returns for a device not registered
  Threshold   \* Parser.blacklist_threshold

ASSUME DescriptorsAssumption ==
  /\ Gps \in Networks /\ Excluded \subseteq Networks
  /\ NoVersion \notin Versions
  /\ Threshold \in Nat \ {0}

Libs == {"can", "gps"}
Keys == Networks \X Versions

Lib(n) == IF n = Gps THEN "gps" ELSE "can"

VARIABLES
  versions,   \* Parser.device_versions
  decoders,   \* keys of ProtobufManager.version_descriptors
  failures,   \* Parser.network_blacklisting
  blacklist,  \* Parser.network_blacklist
  ppc,        \* parser thread
  key,        \* network and version of the message it is at, or <<>>
  news,       \* network thread: device, library and version about to be
              \* registered, or <<>>
  alive,      \* MsgDispatcher.influx_writer is not None
  file,       \* the cache: "absent", "cut" or "whole" for each key
  online,     \* environment: GitHub can be reached
  confirmed   \* history: commits found to exist, by library

memory == <<versions, decoders, failures, blacklist>>
parser == <<ppc, key>>

vars == <<memory, parser, news, alive, file, online, confirmed>>

\* A new Parser, with a new ProtobufManager.
Empty ==
  /\ versions  = [dl \in Devices \X Libs |-> NoVersion]
  /\ decoders  = {}
  /\ failures  = [k \in Keys |-> 0]
  /\ blacklist = {}

Forget ==
  /\ versions'  = [dl \in Devices \X Libs |-> NoVersion]
  /\ decoders'  = {}
  /\ failures'  = [k \in Keys |-> 0]
  /\ blacklist' = {}

Init ==
  /\ Empty
  /\ ppc = "idle" /\ key = <<>>
  /\ news = <<>>
  /\ alive = TRUE
  /\ file = [k \in Keys |-> "absent"]
  /\ online \in BOOLEAN
  /\ confirmed = {}

----------------------------------------------------------------------------
(* Network thread.                                                         *)

\* LibManager.check: one of the repository's URLs answers that it has the
\* commit.  A request that raises counts as no.
CommitFound == online

\* handle_version_message, while a writer is set, finds the commit.
\* Where it does not, the device is logged and nothing changes: a version it
\* had registered stays.
Check(d, l, v) ==
  /\ news = <<>> /\ alive /\ CommitFound
  /\ news' = <<d, l, v>>
  /\ confirmed' = confirmed \cup {<<l, v>>}
  /\ UNCHANGED <<memory, parser, alive, file, online>>

\* The parser keeps __parser_state_lock throughout a download.
Locked == ppc \in {"fetch", "save", "build"}

\* Mutant: version_descriptors[version] is assigned, not set by default.
RegisterResets ==
  /\ news # <<>> /\ news' = <<>>
  /\ ~Locked
  /\ versions' = [versions EXCEPT ![<<news[1], news[2]>>] = news[3]]
  /\ decoders' = { k \in decoders : k[2] # news[3] }
  /\ UNCHANGED <<failures, blacklist, parser, alive, file, online, confirmed>>

\* register_device_version, on the parser there is by now: the writer may
\* have been replaced since, or be gone, which raises and is logged.
Register ==
  /\ news # <<>> /\ news' = <<>>
  /\ ~Locked
  /\ IF alive
     THEN versions' = [versions EXCEPT ![<<news[1], news[2]>>] = news[3]]
     ELSE UNCHANGED versions
  /\ UNCHANGED <<decoders, failures, blacklist, parser, alive, file, online,
                 confirmed>>

----------------------------------------------------------------------------
(* Parser thread: parse_msg.                                               *)

\* Mutant: the libraries' versions are not told apart.
VersionOfAny(d, n) == versions[<<d, "can">>]

VersionOf(d, n) == versions[<<d, Lib(n)>>]

\* Mutant: the blacklist is not looked at.
SkippedUnlisted(n, v) == v = NoVersion \/ n \in Excluded

\* The early returns of parse_msg.
Skipped(n, v) == v = NoVersion \/ n \in Excluded \/ <<n, v>> \in blacklist

TakeMessage(d, n) ==
  /\ ppc = "idle" /\ alive
  /\ ~Skipped(n, VersionOf(d, n))
  /\ ppc' = "find" /\ key' = <<n, VersionOf(d, n)>>
  /\ UNCHANGED <<memory, news, alive, file, online, confirmed>>

\* Mutant: the cache is not looked at.
DownloadedNever(k) == FALSE

\* proto_version_downloaded looks for a file, in the CAN library's directory
\* whatever the network's library.
Downloaded(k) == Lib(k[1]) = "can" /\ file[k] # "absent"

FindDecoder ==
  /\ ppc = "find"
  /\ ppc' = CASE key \in decoders -> "decode"
              [] key \notin decoders /\ Downloaded(key) -> "build"
              [] OTHER -> "fetch"
  /\ UNCHANGED <<memory, key, news, alive, file, online, confirmed>>

\* Mutant: one failure more is forgiven.
CountFailureLate ==
  /\ failures' = [failures EXCEPT ![key] = @ + 1]
  /\ blacklist' = IF failures[key] >= Threshold THEN blacklist \cup {key} ELSE blacklist

CountFailure ==
  /\ failures' = [failures EXCEPT ![key] = @ + 1]
  /\ blacklist' = IF failures[key] + 1 >= Threshold THEN blacklist \cup {key} ELSE blacklist

\* The end of parse_msg.
ParserReturns == ppc' = "idle" /\ key' = <<>>

\* download_proto_descriptor has returned False.
Fail == /\ ParserReturns /\ CountFailure
        /\ UNCHANGED <<versions, decoders>>

\* download: some URL answers with the file, and open() truncates the cache's.
FetchAnswered ==
  /\ ppc = "fetch" /\ online
  /\ ppc' = "save" /\ file' = [file EXCEPT ![key] = "cut"]
  /\ UNCHANGED <<memory, key, news, alive, online, confirmed>>

\* No URL has it and one at least has answered so, or it answers with the file
\* and no directory can be made for it.
FetchRefused ==
  /\ ppc = "fetch" /\ online /\ Fail
  /\ UNCHANGED <<news, alive, file, online, confirmed>>

\* Every request raises: so does the use of the unbound resp, parse_msg
\* catches that, and the failure is not counted.
FetchRaises ==
  /\ ppc = "fetch" /\ ParserReturns
  /\ UNCHANGED <<memory, news, alive, file, online, confirmed>>

\* The file is written, or not to its end.
Save ==
  /\ ppc = "save"
  /\ \/ ppc' = "build" /\ file' = [file EXCEPT ![key] = "whole"]
        /\ UNCHANGED <<memory, key>>
     \/ Fail /\ UNCHANGED file
  /\ UNCHANGED <<news, alive, online, confirmed>>

StoreDecoder == decoders' = decoders \cup {key}

\* build_decoder compiles the cached file.  A whole one may be no valid proto,
\* or no Pack message may be in it; a cut one may happen to be valid.
Build ==
  /\ ppc = "build"
  /\ \/ ppc' = "decode" /\ StoreDecoder
        /\ UNCHANGED <<versions, failures, blacklist, key>>
     \/ Fail
  /\ UNCHANGED <<news, alive, file, online, confirmed>>

\* The decoder is looked up again and applied; an error there is logged.
Decode ==
  /\ ppc = "decode" /\ ParserReturns
  /\ UNCHANGED <<memory, news, alive, file, online, confirmed>>

ParserStep == \/ FindDecoder
              \/ FetchAnswered \/ FetchRefused \/ FetchRaises
              \/ Save \/ Build \/ Decode

----------------------------------------------------------------------------
(* Sessions, crashes and the network.                                      *)

\* MsgDispatcher.stop returns when the parser has ended, between messages.
SessionEnds ==
  /\ alive /\ ppc = "idle"
  /\ alive' = FALSE /\ Forget
  /\ UNCHANGED <<parser, news, file, online, confirmed>>

SessionStarts ==
  /\ ~alive /\ alive' = TRUE
  /\ UNCHANGED <<memory, parser, news, file, online, confirmed>>

\* The process is killed; what is on disk stays as it is.
Crash ==
  /\ alive' = FALSE /\ Forget
  /\ ParserReturns /\ news' = <<>>
  /\ UNCHANGED <<file, online, confirmed>>

Outage ==
  /\ online' = ~online
  /\ UNCHANGED <<memory, parser, news, alive, file, confirmed>>

----------------------------------------------------------------------------
Next == \/ \E d \in Devices, l \in Libs, v \in Versions : Check(d, l, v)
        \/ Register
        \/ \E d \in Devices, n \in Networks : TakeMessage(d, n)
        \/ ParserStep
        \/ SessionEnds \/ SessionStarts \/ Crash \/ Outage

Spec == Init /\ [][Next]_vars

----------------------------------------------------------------------------
(* Safety.                                                                 *)

\* Every variable holds a value of its type; no failure count passes the
\* threshold of Parser.blacklist_threshold.
TypeOK ==
  /\ versions \in [Devices \X Libs -> Versions \cup {NoVersion}]
  /\ decoders \subseteq Keys /\ blacklist \subseteq Keys
  /\ failures \in [Keys -> 0..Threshold]
  /\ ppc \in {"idle", "find", "fetch", "save", "build", "decode"}
  /\ IF ppc = "idle" THEN key = <<>> ELSE key \in Keys
  /\ news \in (Devices \X Libs \X Versions) \cup {<<>>}
  /\ alive \in BOOLEAN /\ online \in BOOLEAN
  /\ file \in [Keys -> {"absent", "cut", "whole"}]
  /\ confirmed \subseteq Libs \X Versions

\* parse_msg finds the decoder it has found, or made, before it let go of the
\* lock, whatever versions are registered meanwhile.
DecodeFindsDecoder == ppc = "decode" => key \in decoders

\* A key is blacklisted exactly when Threshold of its failures have been counted
\* (a download that raises is not, see FailedDownloadsCounted), and then for the
\* rest of the session: it never gets a decoder any more.
BlacklistExact ==
  \A k \in Keys : /\ k \in blacklist <=> failures[k] = Threshold
                  /\ ~(k \in blacklist /\ k \in decoders)

\* A decoder, and a file in the cache, is only ever of a commit that was found
\* to exist in the repository of its own library, and not of a network the
\* configuration excludes.
DecodersConfirmed ==
  \A k \in Keys : k \in decoders \/ file[k] # "absent" =>
                    <<Lib(k[1]), k[2]>> \in confirmed /\ k[1] \notin Excluded

\* A .proto of the CAN library that was saved completely is not touched again:
\* no later session, failure or crash leaves it cut.
WholeFilesKept ==
  [][\A k \in Keys : Lib(k[1]) = "can" /\ file[k] = "whole" => file'[k] = "whole"]_vars

----------------------------------------------------------------------------
(* What the documentation says and the code does not do.                   *)

\* network_blacklisting is the "counter to track the number of times a network
\* has failed to download its .proto descriptor": a download that ends without
\* a file, unless the process dies, counts.
FailedDownloadsCounted ==
  [][ppc = "fetch" /\ ppc' = "idle" /\ alive' => failures'[key] = failures[key] + 1]_vars
=============================================================================
