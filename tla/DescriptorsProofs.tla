------------------------- MODULE DescriptorsProofs -------------------------
(***************************************************************************)
(* The invariants and action properties of Descriptors, for every set of   *)
(* devices, networks and versions and every threshold.                     *)
(*                                                                         *)
(* What makes them inductive is what parse_msg knows at each step of the   *)
(* message it is at: Pursuit.                                              *)
(***************************************************************************)
EXTENDS Descriptors, TLAPS

\* The message in the parser's hands passed the gates of parse_msg; a download
\* is only under way for a key without a decoder, nothing of the CAN library
\* is fetched twice, and what is compiled is on disk.
Pursuit ==
  /\ ppc # "idle" => /\ key \notin blacklist /\ key[1] \notin Excluded
                     /\ <<Lib(key[1]), key[2]>> \in confirmed
  /\ Locked => key \notin decoders
  /\ ppc = "fetch" /\ Lib(key[1]) = "can" => file[key] = "absent"
  /\ ppc \in {"save", "build"} => file[key] # "absent"

\* Versions registered, or about to be, were found to exist.
Checked ==
  /\ \A d \in Devices, l \in Libs :
       versions[<<d, l>>] # NoVersion => <<l, versions[<<d, l>>]>> \in confirmed
  /\ news # <<>> => <<news[2], news[3]>> \in confirmed

IInv == /\ TypeOK /\ DecodeFindsDecoder /\ BlacklistExact /\ DecodersConfirmed
        /\ Pursuit /\ Checked

USE DEF vars, memory, parser, Keys, Libs

----------------------------------------------------------------------------
\* A new Parser knows nothing, so nothing it knows is wrong; the cache and the
\* commits found to exist are as they were.
LEMMA ForgetKeepsInvariant ==
  ASSUME IInv, Forget, UNCHANGED <<file, confirmed>>,
         ppc' = "idle", key' = <<>>, UNCHANGED news \/ news' = <<>>,
         alive' \in BOOLEAN, UNCHANGED online
  PROVE  IInv'
<1> USE DescriptorsAssumption DEF IInv, Forget
<1>1. TypeOK'
  BY DEF TypeOK
<1>2. DecodeFindsDecoder' /\ BlacklistExact' /\ DecodersConfirmed'
  BY DEF TypeOK, DecodeFindsDecoder, BlacklistExact, DecodersConfirmed
<1>3. Pursuit' /\ Checked'
  BY DEF Pursuit, Checked, Locked
<1>4. QED  BY <1>1, <1>2, <1>3

\* download_proto_descriptor fails for a key that may still fail.
LEMMA FailKeepsInvariant ==
  ASSUME IInv, Fail, Locked,
         UNCHANGED <<news, alive, file, online, confirmed>>
  PROVE  IInv'
<1> USE DescriptorsAssumption DEF IInv, Fail, CountFailure, ParserReturns
<1>1. /\ key \in Keys /\ key \notin blacklist /\ key \notin decoders
      /\ failures[key] \in 0..Threshold /\ failures[key] # Threshold
  BY DEF TypeOK, Pursuit, BlacklistExact, Locked
<1>2. TypeOK'
  <2>1. failures' \in [Keys -> 0..Threshold]
    BY <1>1 DEF TypeOK
  <2>2. QED  BY <1>1, <2>1 DEF TypeOK
<1>3. BlacklistExact'
  <2> SUFFICES ASSUME NEW k \in Keys
               PROVE  /\ k \in blacklist' <=> failures'[k] = Threshold
                      /\ ~(k \in blacklist' /\ k \in decoders')
    BY DEF BlacklistExact
  <2>1. CASE k = key
    BY <1>1, <2>1 DEF TypeOK, BlacklistExact
  <2>2. CASE k # key
    BY <1>1, <2>2 DEF TypeOK, BlacklistExact
  <2>3. QED  BY <2>1, <2>2
<1>4. DecodeFindsDecoder' /\ DecodersConfirmed'
  BY DEF DecodeFindsDecoder, DecodersConfirmed
<1>5. Pursuit' /\ Checked'
  BY DEF Pursuit, Checked, Locked
<1>6. QED  BY <1>2, <1>3, <1>4, <1>5

----------------------------------------------------------------------------
\* The new invariant holds at the start.
LEMMA InitIInv == Init => IInv
BY DescriptorsAssumption
   DEF Init, Empty, IInv, TypeOK, DecodeFindsDecoder, BlacklistExact, DecodersConfirmed,
       Pursuit, Checked, Locked

\* ... and every step keeps it.
LEMMA NextIInv == IInv /\ [Next]_vars => IInv'
<1> SUFFICES ASSUME IInv, [Next]_vars  PROVE IInv'
  OBVIOUS
<1> USE DescriptorsAssumption DEF IInv
<1>1. ASSUME NEW d \in Devices, NEW l \in Libs, NEW v \in Versions, Check(d, l, v)
      PROVE  IInv'
  <2> USE <1>1 DEF Check, CommitFound
  <2>1. TypeOK'
    BY DEF TypeOK
  <2>2. DecodeFindsDecoder' /\ BlacklistExact' /\ DecodersConfirmed'
    BY DEF DecodeFindsDecoder, BlacklistExact, DecodersConfirmed
  <2>3. Pursuit' /\ Checked'
    BY DEF Pursuit, Checked, Locked
  <2>4. QED  BY <2>1, <2>2, <2>3
<1>2. ASSUME Register  PROVE IInv'
  <2> USE <1>2 DEF Register
  <2>1. news \in Devices \X Libs \X Versions /\ <<news[2], news[3]>> \in confirmed
    BY DEF TypeOK, Checked
  <2>2. TypeOK'
    BY <2>1 DEF TypeOK
  <2>3. DecodeFindsDecoder' /\ BlacklistExact' /\ DecodersConfirmed' /\ Pursuit'
    BY DEF DecodeFindsDecoder, BlacklistExact, DecodersConfirmed, Pursuit, Locked
  <2>4. ASSUME NEW d \in Devices, NEW l \in Libs, versions'[<<d, l>>] # NoVersion
        PROVE  <<l, versions'[<<d, l>>]>> \in confirmed'
    <3>1. versions[<<d, l>>] # NoVersion => <<l, versions[<<d, l>>]>> \in confirmed
      BY DEF Checked
    <3>2. CASE alive /\ d = news[1] /\ l = news[2]
      <4>1. versions'[<<d, l>>] = news[3]
        BY <3>2 DEF TypeOK
      <4>2. QED  BY <2>1, <3>2, <4>1
    <3>3. CASE ~(alive /\ d = news[1] /\ l = news[2])
      <4>1. versions'[<<d, l>>] = versions[<<d, l>>]
        BY <2>1, <3>3 DEF TypeOK
      <4>2. QED  BY <2>4, <3>1, <4>1
    <3>4. QED  BY <3>2, <3>3
  <2>5. Checked'
    BY <2>4 DEF Checked
  <2>6. QED  BY <2>2, <2>3, <2>5
<1>3. ASSUME NEW d \in Devices, NEW n \in Networks, TakeMessage(d, n)
      PROVE  IInv'
  <2> USE <1>3 DEF TakeMessage, VersionOf, Skipped
  <2>1. Lib(n) \in Libs
    BY DEF Lib
  <2>2. VersionOf(d, n) \in Versions /\ <<Lib(n), VersionOf(d, n)>> \in confirmed
    BY <2>1 DEF TypeOK, Checked
  <2>3. TypeOK'
    BY <2>2 DEF TypeOK
  <2>4. DecodeFindsDecoder' /\ BlacklistExact' /\ DecodersConfirmed'
    BY DEF DecodeFindsDecoder, BlacklistExact, DecodersConfirmed
  <2>5. Pursuit' /\ Checked'
    BY <2>2 DEF Pursuit, Checked, Locked
  <2>6. QED  BY <2>3, <2>4, <2>5
<1>4. ASSUME FindDecoder  PROVE IInv'
  <2> USE <1>4 DEF FindDecoder
  <2>1. TypeOK'
    BY DEF TypeOK
  <2>2. DecodeFindsDecoder' /\ BlacklistExact' /\ DecodersConfirmed'
    BY DEF DecodeFindsDecoder, BlacklistExact, DecodersConfirmed
  <2>3. Pursuit' /\ Checked'
    BY DEF Pursuit, Checked, Locked, Downloaded
  <2>4. QED  BY <2>1, <2>2, <2>3
<1>5. ASSUME FetchAnswered  PROVE IInv'
  <2> USE <1>5 DEF FetchAnswered
  <2>1. TypeOK'
    BY DEF TypeOK
  <2>2. DecodeFindsDecoder' /\ BlacklistExact'
    BY DEF DecodeFindsDecoder, BlacklistExact
  <2>3. DecodersConfirmed'
    BY DEF DecodersConfirmed, Pursuit, TypeOK
  <2>4. Pursuit' /\ Checked'
    BY DEF Pursuit, Checked, Locked, TypeOK
  <2>5. QED  BY <2>1, <2>2, <2>3, <2>4
<1>6. ASSUME FetchRefused  PROVE IInv'
  BY <1>6, FailKeepsInvariant DEF FetchRefused, Locked
<1>7. ASSUME FetchRaises  PROVE IInv'
  <2> USE <1>7 DEF FetchRaises, ParserReturns
  <2>1. TypeOK'
    BY DEF TypeOK
  <2>2. DecodeFindsDecoder' /\ BlacklistExact' /\ DecodersConfirmed'
    BY DEF DecodeFindsDecoder, BlacklistExact, DecodersConfirmed
  <2>3. Pursuit' /\ Checked'
    BY DEF Pursuit, Checked, Locked
  <2>4. QED  BY <2>1, <2>2, <2>3
<1>8. ASSUME Save  PROVE IInv'
  <2>1. CASE Fail /\ UNCHANGED file
    BY <1>8, <2>1, FailKeepsInvariant DEF Save, Locked
  <2>2. CASE ppc' = "build" /\ file' = [file EXCEPT ![key] = "whole"] /\ UNCHANGED <<memory, key>>
    <3> USE <1>8, <2>2 DEF Save
    <3>1. TypeOK'
      BY DEF TypeOK
    <3>2. DecodeFindsDecoder' /\ BlacklistExact'
      BY DEF DecodeFindsDecoder, BlacklistExact
    <3>3. DecodersConfirmed'
      BY DEF DecodersConfirmed, Pursuit, TypeOK
    <3>4. Pursuit' /\ Checked'
      BY DEF Pursuit, Checked, Locked, TypeOK
    <3>5. QED  BY <3>1, <3>2, <3>3, <3>4
  <2>3. QED  BY <1>8, <2>1, <2>2 DEF Save
<1>9. ASSUME Build  PROVE IInv'
  <2>1. CASE Fail
    BY <1>9, <2>1, FailKeepsInvariant DEF Build, Locked
  <2>2. CASE /\ ppc' = "decode" /\ decoders' = decoders \cup {key}
             /\ UNCHANGED <<versions, failures, blacklist, key>>
    <3> USE <1>9, <2>2 DEF Build
    <3>1. TypeOK'
      BY DEF TypeOK
    <3>2. DecodeFindsDecoder' /\ BlacklistExact'
      BY DEF DecodeFindsDecoder, BlacklistExact, Pursuit
    <3>3. DecodersConfirmed'
      BY DEF DecodersConfirmed, Pursuit
    <3>4. Pursuit' /\ Checked'
      BY DEF Pursuit, Checked, Locked
    <3>5. QED  BY <3>1, <3>2, <3>3, <3>4
  <2>3. QED  BY <1>9, <2>1, <2>2 DEF Build, StoreDecoder
<1>10. ASSUME Decode  PROVE IInv'
  <2> USE <1>10 DEF Decode, ParserReturns
  <2>1. TypeOK'
    BY DEF TypeOK
  <2>2. DecodeFindsDecoder' /\ BlacklistExact' /\ DecodersConfirmed'
    BY DEF DecodeFindsDecoder, BlacklistExact, DecodersConfirmed
  <2>3. Pursuit' /\ Checked'
    BY DEF Pursuit, Checked, Locked
  <2>4. QED  BY <2>1, <2>2, <2>3
<1>11. ASSUME SessionEnds  PROVE IInv'
  BY <1>11, ForgetKeepsInvariant DEF SessionEnds, TypeOK
<1>12. ASSUME Crash  PROVE IInv'
  BY <1>12, ForgetKeepsInvariant DEF Crash, ParserReturns
<1>13. ASSUME SessionStarts \/ Outage \/ UNCHANGED vars  PROVE IInv'
  <2> USE <1>13 DEF SessionStarts, Outage
  <2>1. TypeOK'
    BY DEF TypeOK
  <2>2. DecodeFindsDecoder' /\ BlacklistExact' /\ DecodersConfirmed'
    BY DEF DecodeFindsDecoder, BlacklistExact, DecodersConfirmed
  <2>3. Pursuit' /\ Checked'
    BY DEF Pursuit, Checked, Locked
  <2>4. QED  BY <2>1, <2>2, <2>3
<1>14. QED
  BY <1>1, <1>2, <1>3, <1>4, <1>5, <1>6, <1>7, <1>8, <1>9, <1>10, <1>11, <1>12, <1>13
     DEF Next, ParserStep

\* What the parser knows of the message in its hands holds throughout.
THEOREM InvariantHolds == Spec => []IInv
BY InitIInv, NextIInv, PTL DEF Spec

----------------------------------------------------------------------------
\* The fields of Parser, ProtobufManager and the cache keep their types, and
\* no failure count passes blacklist_threshold.
THEOREM DescriptorsTypeCorrect == Spec => []TypeOK
BY InvariantHolds, PTL DEF IInv

\* The decoder parse_msg applies is there, whatever versions are registered
\* between its two looks at version_descriptors.
THEOREM DecoderIsThere == Spec => []DecodeFindsDecoder
BY InvariantHolds, PTL DEF IInv

\* A key is blacklisted when Threshold of its failures have been counted and not
\* before, and a network with a decoder never is.
THEOREM BlacklistIsExact == Spec => []BlacklistExact
BY InvariantHolds, PTL DEF IInv

\* Only commits found to exist in the library's own repository are downloaded
\* and decoded with, none of them for an excluded network.
THEOREM OnlyConfirmedDecoders == Spec => []DecodersConfirmed
BY InvariantHolds, PTL DEF IInv

\* Neither a later session nor a failure nor a crash cuts a .proto of the CAN
\* library that was saved completely.
THEOREM CacheKept == Spec => WholeFilesKept
<1>1. ASSUME IInv, [Next]_vars
      PROVE  [\A k \in Keys : Lib(k[1]) = "can" /\ file[k] = "whole" => file'[k] = "whole"]_vars
  <2>1. ASSUME NEW k \in Keys, Lib(k[1]) = "can", file[k] = "whole"
        PROVE  file'[k] = "whole"
    <3>1. CASE FetchAnswered
      BY <1>1, <2>1, <3>1 DEF FetchAnswered, IInv, Pursuit, TypeOK
    <3>2. CASE Save
      BY <1>1, <2>1, <3>2 DEF Save, IInv, TypeOK
    <3>3. CASE UNCHANGED file
      BY <2>1, <3>3
    <3>4. QED
      BY <1>1, <3>1, <3>2, <3>3
         DEF Next, ParserStep, Check, Register, TakeMessage, FindDecoder, FetchRefused,
             FetchRaises, Build, Decode, SessionEnds, SessionStarts, Crash, Outage
  <2>2. QED  BY <2>1
<1>2. QED  BY <1>1, InvariantHolds, PTL DEF Spec, WholeFilesKept
=============================================================================
