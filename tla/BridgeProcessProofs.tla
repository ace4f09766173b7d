-------------------------- MODULE BridgeProcessProofs --------------------------
(***************************************************************************)
(* Theorems about BridgeProcess, for any command lines, any files and any  *)
(* answers of the Tailscale CLI.  The invariant says what has been checked *)
(* by the time a process is where it is, and that a rollover of the files  *)
(* meanwhile takes nothing of it back.                                     *)
(***************************************************************************)
EXTENDS BridgeProcess, SequenceTheorems, WellFoundedInduction, TLAPS

\* The options, and the address, are the command line's.
Discovered == {"report", "serving"} \cup Reading

OptionsInv ==
  /\ stage \notin Opening \cup Over => launch.limit # 0 /\ launch.paths = "given"
  /\ stage \notin Opening \cup Over =>
       IF IsClient THEN options.listen = "socket"
       ELSE ~launch.tailscale => options.listen = "fixed"
  /\ stage \in {"discover", "discover on PATH"} => launch.tailscale
  /\ stage = "name" => IsClient
  /\ stage \in Discovered /\ launch.tailscale => answer = <<options.listen>>

\* What is read so far, and what was found right when it was read.
Roots == {"chain", "permissions", "key", "pair", "name", "bind", "serving"}
Chained == Roots \ {"chain"}
Permitted == Chained \ {"permissions"}
Keyed == Permitted \ {"key"}

MaterialInv ==
  /\ {"ca", "chain", "key"} \subseteq DOMAIN got /\ "listen" \in DOMAIN options
  /\ stage \in Roots => got.ca # Unread
  /\ stage \in Chained => got.chain # Unread
  /\ stage \notin Chained \cup Over => got.chain = Unread
  /\ stage \in Permitted /\ launch.unix => files.key.private
  /\ stage \in Keyed => \A i, j \in Occurs(files.key, Keys) : i = j
  /\ stage \in Keyed \ {"pair"} => Paired(got.chain, got.key)

\* What the control manager is told of a service.
ReportInv ==
  /\ stage \in Hosting \ {"discover", "discover on PATH"} => IsService
  /\ IsService =>
       /\ stage \in Opening \cup Hosting \cup {"left"} => reported = "starting" /\ stop = "none"
       /\ stage \in Reading \cup {"serving"} => reported = "running"
       /\ stage \in {"refused", "ended"} => reported = "stopped"

\* An error ends the process, and stays true of the files.
RefusalInv == RefusalTrue /\ (why # "none" => stage \in {"refused", "left"})

IInv == TypeOK /\ OptionsInv /\ MaterialInv /\ ReportInv /\ RefusalInv

-----------------------------------------------------------------------------
(***************************************************************************)
(* The readers of TlsMaterial.                                             *)
(***************************************************************************)

\* Every non-empty set of places has a first one.
LEMMA FirstIsFirst ==
  ASSUME NEW places \in SUBSET Nat, places # {}
  PROVE  First(places) \in places /\ \A j \in places : First(places) <= j
<1> DEFINE Less == {ij \in Nat \X Nat : ij[1] < ij[2]}
<1>1. IsWellFoundedOn(Less, Nat)
  BY NatLessThanWellFounded DEF OpToRel
<1>2. PICK i \in places : \A j \in places : ~ (<<j, i>> \in Less)
  <2> HIDE DEF Less
  <2> QED BY <1>1, WFMin
<1>3. ASSUME NEW j \in places PROVE i <= j
  <2>1. i \in Nat /\ j \in Nat
    OBVIOUS
  <2>2. j < i => <<j, i>> \in Less
    BY <2>1
  <2> QED BY <1>2, <2>1, <2>2
<1> QED BY <1>3 DEF First

\* What load_private_key says of a file is true of it, and the key it returns
\* is the only one there.
LEMMA KeyErrorTrue ==
  ASSUME NEW file \in Files
  PROVE  /\ KeyError(file) = "none" =>
              FirstKey(file) \in Keys /\ \A i, j \in Occurs(file, Keys) : i = j
         /\ KeyError(file) = "Read" => ~file.readable
         /\ KeyError(file) = "MissingPrivateKey" => Occurs(file, Keys) = {}
         /\ KeyError(file) = "PrivateKeyParse" => Occurs(file, {Broken}) # {}
         /\ KeyError(file) = "MultiplePrivateKeys" => \E i, j \in Occurs(file, Keys) : i # j
         /\ KeyError(file) \in {"none", "Read", "MissingPrivateKey", "PrivateKeyParse",
                                "MultiplePrivateKeys"}
<1>1. DOMAIN file.sections \subseteq Nat
  BY DEF Files
<1> DEFINE first == First(KeyScan(file))
           second == First(Behind(file))
<1>2. KeyScan(file) # {} => first \in KeyScan(file)
  BY <1>1, FirstIsFirst DEF KeyScan, Occurs
<1>3. Behind(file) # {} => second \in KeyScan(file) /\ second # first
  BY <1>1, FirstIsFirst DEF Behind, KeyScan, Occurs
<1>4. \A i \in KeyScan(file) :
        IF file.sections[i] = Broken THEN i \in Occurs(file, {Broken})
        ELSE i \in Occurs(file, Keys) /\ file.sections[i] \in Keys
  BY DEF KeyScan, Occurs
<1>5. Occurs(file, Keys) \subseteq KeyScan(file)
  BY DEF KeyScan, Occurs
<1>6. Behind(file) = {} => \A i, j \in KeyScan(file) : i = j
  BY DEF Behind
<1> HIDE DEF first, second
<1> QED BY <1>2, <1>3, <1>4, <1>5, <1>6 DEF KeyError, FirstKey, first, second

\* So is what load_certificates and root_store say; what they return is not
\* empty.
LEMMA CertificateErrorTrue ==
  ASSUME NEW file \in Files
  PROVE  /\ CertificateError(file) = "none" => CertificatesOf(file) # Unread
         /\ CertificateError(file) = "Read" => ~file.readable
         /\ CertificateError(file) = "CertificateParse" => Occurs(file, {Broken}) # {}
         /\ CertificateError(file) = "EmptyCertificateChain" => Occurs(file, Certificates) = {}
         /\ CertificateError(file) \in {"none", "Read", "CertificateParse",
                                        "EmptyCertificateChain"}
BY DEF CertificateError, CertificatesOf, Only, Unread

LEMMA RootErrorTrue ==
  ASSUME NEW file \in Files
  PROVE  /\ RootError(file) = "none" => Only(file, Parsable) # Unread
         /\ RootError(file) = "EmptyRootStore" => Occurs(file, Parsable) = {}
         /\ RootError(file) \in {"none", "EmptyRootStore"} \/ RootError(file) = CertificateError(file)
BY CertificateErrorTrue DEF RootError, Only, Unread

-----------------------------------------------------------------------------
(***************************************************************************)
(* The inductive invariant.                                                *)
(***************************************************************************)

LEMMA InitIInv == Init => IInv
<1> SUFFICES ASSUME Init PROVE IInv
  OBVIOUS
<1> USE ProcessAssumption DEF Init, Opening, Hosting, Reading, Over, Nothing, NoOptions
<1>1. TypeOK
  BY DEF TypeOK
<1>2. OptionsInv
  BY DEF OptionsInv, Discovered
<1>3. MaterialInv
  BY DEF MaterialInv, Roots, Chained, Permitted, Keyed
<1>4. ReportInv
  BY DEF ReportInv, IsService
<1>5. RefusalInv
  BY DEF RefusalInv, RefusalTrue
<1> QED BY <1>1, <1>2, <1>3, <1>4, <1>5 DEF IInv

\* An early return, for a reason that is true.
LEMMA RefuseIInv ==
  ASSUME IInv, NEW reason, stage \notin Over, Refuse(reason), RefusalTrue'
  PROVE  IInv'
<1> USE DEF IInv, Refuse, Hangs
<1>1. stage' \in {"refused", "left"} /\ UNCHANGED <<launch, files, options, answer, got, stop>>
  OBVIOUS
<1>2. stage' = "left" <=> IsService /\ stage \in Hosting \ {"dispatch"}
  OBVIOUS
<1>3. TypeOK'
  BY <1>1 DEF TypeOK, Over
<1>4. OptionsInv'
  BY <1>1 DEF OptionsInv, Discovered, Opening, Reading, Over
<1>5. MaterialInv'
  BY <1>1 DEF MaterialInv, Roots, Chained, Permitted, Keyed, Over
<1>6. ReportInv'
  BY <1>1, <1>2 DEF ReportInv, IsService, Opening, Hosting, Reading
<1>7. RefusalInv'
  BY <1>1 DEF RefusalInv
<1> QED BY <1>3, <1>4, <1>5, <1>6, <1>7

\* An error that is not about options or files says nothing of them.
Plain == {"Log", "Dispatch", "Register", "Runtime", "Tailscale", "Timeout", "Report", "Bind",
          "Replaced", "InvalidAddress", "MissingAddress", "MultipleAddresses"}

LEMMA PlainRefuseIInv ==
  ASSUME IInv, NEW reason \in Plain, stage \notin Over, Refuse(reason)
  PROVE  IInv'
<1>1. RefusalTrue'
  BY DEF Refuse, Plain, RefusalTrue
<1> QED BY <1>1, RefuseIInv

\* A step that only moves on keeps what is known of the files, and the error.
LEMMA AdvanceRefusal ==
  ASSUME IInv, stage \notin Over, UNCHANGED <<launch, files, why>>
  PROVE  RefusalInv'
<1>1. why = "none"
  BY DEF IInv, RefusalInv, Over
<1> QED BY <1>1 DEF RefusalInv, RefusalTrue

\* An error about files that have not changed stays true.
LEMMA RefusalKept ==
  ASSUME RefusalTrue, UNCHANGED <<launch, files, got, why>>
  PROVE  RefusalTrue'
BY DEF RefusalTrue, IsClient

\* What a step that only moves on has to show.
LEMMA AdvanceIInv ==
  ASSUME IInv, stage \notin Over, UNCHANGED <<launch, files, why, answer, got>>,
         options' = options, stop' = stop,
         stage' \in Opening \cup Hosting \cup Reading \cup {"serving"},
         reported' \in {"stopped", "starting", "running"},
         OptionsInv', MaterialInv', ReportInv'
  PROVE  IInv'
<1>1. TypeOK'
  BY DEF IInv, TypeOK
<1> QED BY <1>1, AdvanceRefusal DEF IInv

-----------------------------------------------------------------------------
\* The options, and the service wrapper.
LEMMA OpeningIInv ==
  ASSUME IInv, StartLog \/ BuildOptions
  PROVE  IInv'
<1> USE DEF IInv, outside, Advance, Opening, Hosting, Reading, Over
<1>1. CASE StartLog
  <2>1. CASE Refuse("Log")
    BY <1>1, <2>1, PlainRefuseIInv DEF StartLog, Plain
  <2>2. CASE ~Refuse("Log")
    <3>1. /\ stage = "launched" /\ stage' = "options"
          /\ UNCHANGED <<launch, why, files, options, answer, got, reported, stop>>
      BY <1>1, <2>2 DEF StartLog
    <3>2. OptionsInv' /\ MaterialInv' /\ ReportInv'
      BY <3>1 DEF OptionsInv, MaterialInv, ReportInv, Discovered, Roots, Chained,
                  Permitted, Keyed, IsService
    <3> QED BY <3>1, <3>2, AdvanceIInv DEF TypeOK
  <2> QED BY <2>1, <2>2
<1>2. CASE BuildOptions
  <2>1. CASE OptionsError # "none"
    <3>1. stage = "options" /\ Refuse(OptionsError)
      BY <1>2, <2>1 DEF BuildOptions
    <3>2. RefusalTrue'
      BY <3>1 DEF Refuse, OptionsError, RefusalTrue, IsClient
    <3> QED BY <3>1, <3>2, RefuseIInv
  <2>2. CASE OptionsError = "none"
    <3>1. /\ stage = "options" /\ stage' = AfterOptions
          /\ options' = IF IsClient THEN [listen |-> "socket", agent |-> "none"] ELSE ServerOptions
          /\ UNCHANGED <<launch, why, files, answer, got, reported, stop>>
      BY <1>2, <2>2 DEF BuildOptions
    <3>2. launch \in LaunchTypes /\ (launch.tailscale => ~launch.unix) /\ (IsClient => launch.unix)
      BY ProcessAssumption DEF TypeOK, IsClient
    <3>3. launch.limit # 0 /\ launch.paths = "given"
      BY <2>2, <3>2 DEF OptionsError, LaunchTypes
    <3>4. TypeOK'
      BY <3>1 DEF TypeOK, AfterOptions
    <3>5. OptionsInv'
      BY <3>1, <3>2, <3>3 DEF OptionsInv, Discovered, AfterOptions, ServerOptions, IsClient, IsService
    <3>6. MaterialInv'
      BY <3>1 DEF MaterialInv, AfterOptions, ServerOptions, Roots, Chained, Permitted, Keyed
    <3>7. ReportInv'
      BY <3>1 DEF ReportInv, AfterOptions, IsService
    <3> QED BY <3>1, <3>4, <3>5, <3>6, <3>7, AdvanceRefusal
  <2> QED BY <2>1, <2>2
<1> QED BY <1>1, <1>2

\* A step of the service wrapper that succeeds, or returns early.
LEMMA HostIInv ==
  ASSUME IInv, NEW from \in {"dispatch", "register", "runtime"},
         NEW to \in Hosting \ {"dispatch", "discover on PATH"}, NEW reason \in Plain,
         Host(from, to, reason),
         to = "discover" => launch.tailscale,
         to = "report" => ~launch.tailscale
  PROVE  IInv'
<1> USE DEF IInv, outside, Advance, Opening, Hosting, Reading, Over
<1>1. CASE Refuse(reason)
  BY <1>1, PlainRefuseIInv DEF Host
<1>2. CASE ~Refuse(reason)
  <2>1. /\ stage = from /\ stage' = to
        /\ UNCHANGED <<launch, why, files, options, answer, got, reported, stop>>
    BY <1>2 DEF Host
  <2>2. OptionsInv'
    BY <2>1 DEF OptionsInv, Discovered, IsClient
  <2>3. MaterialInv'
    BY <2>1 DEF MaterialInv, Roots, Chained, Permitted, Keyed
  <2>4. ReportInv'
    BY <2>1 DEF ReportInv, IsService
  <2> QED BY <2>1, <2>2, <2>3, <2>4, AdvanceIInv DEF TypeOK
<1> QED BY <1>1, <1>2

LEMMA ServiceIInv ==
  ASSUME IInv, Dispatch \/ Register \/ BuildRuntime
  PROVE  IInv'
<1>1. CASE Dispatch
  BY <1>1, HostIInv DEF Dispatch, Hosting, Plain
<1>2. CASE Register
  BY <1>2, HostIInv DEF Register, Hosting, Plain
<1>3. CASE BuildRuntime
  <2>1. CASE launch.tailscale
    BY <1>3, <2>1, HostIInv DEF BuildRuntime, Hosting, Plain
  <2>2. CASE ~launch.tailscale
    BY <1>3, <2>2, HostIInv DEF BuildRuntime, Hosting, Plain
  <2> QED BY <2>1, <2>2
<1> QED BY <1>1, <1>2, <1>3

\* The discovery ends with the one address it has found, or with an error; and
\* Running is reported.
LEMMA DiscoveryIInv ==
  ASSUME IInv, CliFails \/ CliTimesOut \/ DefaultCliMissing \/ CliAnswers \/ ReportRunning
  PROVE  IInv'
<1> USE DEF IInv, outside, Advance, Opening, Hosting, Reading, Over
<1>1. CASE CliFails \/ CliTimesOut
  BY <1>1, PlainRefuseIInv DEF CliFails, CliTimesOut, Discovering, Plain
<1>2. CASE DefaultCliMissing
  <2>1. /\ stage = "discover" /\ stage' = "discover on PATH"
        /\ UNCHANGED <<launch, why, files, options, answer, got, reported, stop>>
    BY <1>2 DEF DefaultCliMissing
  <2>2. OptionsInv' /\ MaterialInv' /\ ReportInv'
    BY <2>1 DEF OptionsInv, MaterialInv, ReportInv, Discovered, Roots, Chained,
                Permitted, Keyed, IsService, IsClient
  <2> QED BY <2>1, <2>2, AdvanceIInv DEF TypeOK
<1>3. CASE CliAnswers
  <2>1. PICK lines \in Answers :
          \/ AddressError(lines) # "none" /\ Refuse(AddressError(lines))
          \/ /\ AddressError(lines) = "none"
             /\ answer' = lines
             /\ options' = [options EXCEPT !.listen = lines[1]]
             /\ stage' = (IF IsService THEN "report" ELSE "roots")
             /\ UNCHANGED <<launch, why, files, got, reported, stop>>
    BY <1>3 DEF CliAnswers
  <2>2. stage \in {"discover", "discover on PATH"} /\ launch.tailscale
    BY <1>3 DEF CliAnswers, Discovering, OptionsInv
  <2>3. CASE AddressError(lines) # "none"
    <3>1. AddressError(lines) \in Plain
      BY <2>3 DEF AddressError, Plain
    <3> QED BY <2>1, <2>2, <2>3, <3>1, PlainRefuseIInv
  <2>4. CASE AddressError(lines) = "none"
    <3>1. lines = <<lines[1]>>
      <4>1. lines \in Seq(STRING) /\ lines # <<>> /\ ~(Len(lines) > 1)
        BY <2>4, ProcessAssumption DEF AddressError
      <4>2. Len(lines) \in Nat \ {0}
        BY <4>1, EmptySeq
      <4>3. lines \in [1..Len(lines) -> STRING]
        BY <4>1, LenProperties
      <4> QED BY <4>1, <4>2, <4>3
    <3>2. launch \in LaunchTypes /\ ~IsClient
      BY <2>2, ProcessAssumption DEF TypeOK, IsClient
    <3>3. TypeOK'
      BY <2>1, <2>4 DEF TypeOK
    <3>4. options'.listen = lines[1] /\ DOMAIN options' = DOMAIN options
      BY <2>1, <2>4 DEF MaterialInv
    <3>5. OptionsInv'
      BY <2>1, <2>2, <2>4, <3>1, <3>2, <3>4 DEF OptionsInv, Discovered, IsClient
    <3>6. MaterialInv'
      BY <2>1, <2>2, <2>4, <3>4 DEF MaterialInv, Roots, Chained, Permitted, Keyed
    <3>7. ReportInv'
      BY <2>1, <2>2, <2>4 DEF ReportInv, IsService
    <3> QED BY <2>1, <2>2, <2>4, <3>3, <3>5, <3>6, <3>7, AdvanceRefusal
  <2> QED BY <2>3, <2>4
<1>4. CASE ReportRunning
  <2>1. CASE Refuse("Report")
    BY <1>4, <2>1, PlainRefuseIInv DEF ReportRunning, Plain
  <2>2. CASE ~Refuse("Report")
    <3>1. /\ stage = "report" /\ stage' = "roots" /\ reported' = "running"
          /\ UNCHANGED <<launch, why, files, options, answer, got, stop>>
      BY <1>4, <2>2 DEF ReportRunning
    <3>2. OptionsInv' /\ MaterialInv' /\ ReportInv'
      BY <3>1 DEF OptionsInv, MaterialInv, ReportInv, Discovered, Roots, Chained,
                  Permitted, Keyed, IsService, IsClient
    <3> QED BY <3>1, <3>2, AdvanceIInv DEF TypeOK
  <2> QED BY <2>1, <2>2
<1> QED BY <1>1, <1>2, <1>3, <1>4

-----------------------------------------------------------------------------
\* The material: what a reader refuses is wrong with the file, and what it
\* accepts is as it should be.
LEMMA ReadingIInv ==
  ASSUME IInv, \/ LoadRoots \/ LoadCertificates \/ CheckPermissions \/ LoadPrivateKey
               \/ Pair \/ ParseName
  PROVE  IInv'
<1> USE DEF IInv, outside, Advance, Load, Opening, Hosting, Reading, Over
<1>1. files.ca \in Files /\ files.chain \in Files /\ files.key \in Files
  BY DEF TypeOK
<1>2. "ca" \in DOMAIN got /\ "chain" \in DOMAIN got /\ "key" \in DOMAIN got
  BY DEF MaterialInv
<1>3. CASE LoadRoots
  <2>1. CASE RootError(files.ca) # "none"
    <3>1. stage = "roots" /\ Refuse(RootError(files.ca))
      BY <1>3, <2>1 DEF LoadRoots
    <3>2. RefusalTrue'
      BY <1>1, <2>1, <3>1, RootErrorTrue, CertificateErrorTrue DEF Refuse, RefusalTrue
    <3> QED BY <3>1, <3>2, RefuseIInv
  <2>2. CASE RootError(files.ca) = "none"
    <3>1. /\ stage = "roots" /\ stage' = "chain"
          /\ got' = [got EXCEPT !.ca = Only(files.ca, Parsable)]
          /\ UNCHANGED <<launch, why, files, options, answer, reported, stop>>
      BY <1>3, <2>2 DEF LoadRoots
    <3>2. got'.ca # Unread /\ got'.chain = got.chain /\ got'.key = got.key /\ DOMAIN got' = DOMAIN got
      BY <1>1, <1>2, <2>2, <3>1, RootErrorTrue
    <3>3. TypeOK'
      BY <3>1, <3>2 DEF TypeOK
    <3>4. OptionsInv'
      BY <3>1 DEF OptionsInv, Discovered, IsClient
    <3>5. MaterialInv' /\ ReportInv'
      BY <3>1, <3>2 DEF MaterialInv, Roots, Chained, Permitted, Keyed, ReportInv, IsService
    <3> QED BY <3>1, <3>3, <3>4, <3>5, AdvanceRefusal
  <2> QED BY <2>1, <2>2
<1>4. CASE LoadCertificates
  <2>1. CASE CertificateError(files.chain) # "none"
    <3>1. stage = "chain" /\ Refuse(CertificateError(files.chain))
      BY <1>4, <2>1 DEF LoadCertificates
    <3>2. RefusalTrue'
      BY <1>1, <2>1, <3>1, CertificateErrorTrue DEF Refuse, RefusalTrue
    <3> QED BY <3>1, <3>2, RefuseIInv
  <2>2. CASE CertificateError(files.chain) = "none"
    <3>1. /\ stage = "chain" /\ stage' = "permissions"
          /\ got' = [got EXCEPT !.chain = CertificatesOf(files.chain)]
          /\ UNCHANGED <<launch, why, files, options, answer, reported, stop>>
      BY <1>4, <2>2 DEF LoadCertificates
    <3>2. got'.chain # Unread /\ got'.ca = got.ca /\ got'.key = got.key /\ DOMAIN got' = DOMAIN got
      BY <1>1, <1>2, <2>2, <3>1, CertificateErrorTrue
    <3>3. TypeOK'
      BY <3>1, <3>2 DEF TypeOK
    <3>4. OptionsInv'
      BY <3>1 DEF OptionsInv, Discovered, IsClient
    <3>5. MaterialInv' /\ ReportInv'
      BY <3>1, <3>2 DEF MaterialInv, Roots, Chained, Permitted, Keyed, ReportInv, IsService
    <3> QED BY <3>1, <3>3, <3>4, <3>5, AdvanceRefusal
  <2> QED BY <2>1, <2>2
<1>5. CASE CheckPermissions
  <2>1. CASE PermissionsError # "none"
    <3>1. stage = "permissions" /\ Refuse(PermissionsError)
      BY <1>5, <2>1 DEF CheckPermissions
    <3>2. RefusalTrue'
      BY <2>1, <3>1 DEF Refuse, RefusalTrue, PermissionsError
    <3> QED BY <3>1, <3>2, RefuseIInv
  <2>2. CASE PermissionsError = "none"
    <3>1. /\ stage = "permissions" /\ stage' = "key"
          /\ UNCHANGED <<launch, why, files, options, answer, got, reported, stop>>
      BY <1>5, <2>2 DEF CheckPermissions
    <3>2. launch.unix => files.key.private
      BY <2>2 DEF PermissionsError
    <3>3. OptionsInv'
      BY <3>1 DEF OptionsInv, Discovered, IsClient
    <3>4. MaterialInv' /\ ReportInv'
      BY <3>1, <3>2 DEF MaterialInv, Roots, Chained, Permitted, Keyed, ReportInv, IsService
    <3> QED BY <3>1, <3>3, <3>4, AdvanceIInv DEF TypeOK
  <2> QED BY <2>1, <2>2
<1>6. CASE LoadPrivateKey
  <2>1. CASE KeyError(files.key) # "none"
    <3>1. stage = "key" /\ Refuse(KeyError(files.key))
      BY <1>6, <2>1 DEF LoadPrivateKey
    <3>2. RefusalTrue'
      BY <1>1, <2>1, <3>1, KeyErrorTrue DEF Refuse, RefusalTrue
    <3> QED BY <3>1, <3>2, RefuseIInv
  <2>2. CASE KeyError(files.key) = "none"
    <3>1. /\ stage = "key" /\ stage' = "pair"
          /\ got' = [got EXCEPT !.key = FirstKey(files.key)]
          /\ UNCHANGED <<launch, why, files, options, answer, reported, stop>>
      BY <1>6, <2>2 DEF LoadPrivateKey
    <3>2. got'.key \in Keys /\ got'.ca = got.ca /\ got'.chain = got.chain /\ DOMAIN got' = DOMAIN got
      BY <1>1, <1>2, <2>2, <3>1, KeyErrorTrue
    <3>3. \A i, j \in Occurs(files.key, Keys) : i = j
      BY <1>1, <2>2, KeyErrorTrue
    <3>4. TypeOK'
      BY <3>1, <3>2 DEF TypeOK
    <3>5. OptionsInv'
      BY <3>1 DEF OptionsInv, Discovered, IsClient
    <3>6. MaterialInv' /\ ReportInv'
      BY <3>1, <3>2, <3>3 DEF MaterialInv, Roots, Chained, Permitted, Keyed, ReportInv, IsService
    <3> QED BY <3>1, <3>4, <3>5, <3>6, AdvanceRefusal
  <2> QED BY <2>1, <2>2
<1>7. CASE Pair
  <2>1. CASE ~Paired(got.chain, got.key)
    <3>1. stage = "pair" /\ Refuse("Configuration")
      BY <1>7, <2>1 DEF Pair
    <3>2. RefusalTrue'
      BY <2>1, <3>1 DEF Refuse, RefusalTrue
    <3> QED BY <3>1, <3>2, RefuseIInv
  <2>2. CASE Paired(got.chain, got.key)
    <3>1. /\ stage = "pair" /\ stage' = (IF IsClient THEN "name" ELSE "bind")
          /\ UNCHANGED <<launch, why, files, options, answer, got, reported, stop>>
      BY <1>7, <2>2 DEF Pair
    <3>2. OptionsInv'
      BY <3>1 DEF OptionsInv, Discovered, IsClient
    <3>3. MaterialInv' /\ ReportInv'
      BY <2>2, <3>1 DEF MaterialInv, Roots, Chained, Permitted, Keyed, ReportInv, IsService
    <3> QED BY <3>1, <3>2, <3>3, AdvanceIInv DEF TypeOK
  <2> QED BY <2>1, <2>2
<1>8. CASE ParseName
  <2>1. CASE launch.name = "invalid"
    <3>1. stage = "name" /\ Refuse("InvalidServerName") /\ IsClient
      BY <1>8, <2>1 DEF ParseName, OptionsInv
    <3>2. RefusalTrue'
      BY <2>1, <3>1 DEF Refuse, RefusalTrue, IsClient
    <3> QED BY <3>1, <3>2, RefuseIInv
  <2>2. CASE launch.name # "invalid"
    <3>1. /\ stage = "name" /\ stage' = "bind"
          /\ UNCHANGED <<launch, why, files, options, answer, got, reported, stop>>
      BY <1>8, <2>2 DEF ParseName
    <3>2. OptionsInv'
      BY <3>1 DEF OptionsInv, Discovered, IsClient
    <3>3. MaterialInv' /\ ReportInv'
      BY <3>1 DEF MaterialInv, Roots, Chained, Permitted, Keyed, ReportInv, IsService
    <3> QED BY <3>1, <3>2, <3>3, AdvanceIInv DEF TypeOK
  <2> QED BY <2>1, <2>2
<1> QED BY <1>3, <1>4, <1>5, <1>6, <1>7, <1>8

\* Listening, stops and signals, and the end.
LEMMA ServingIInv ==
  ASSUME IInv, Bind \/ StopControl \/ PassOn \/ Signal \/ Drained \/ MonitorFails
  PROVE  IInv'
<1> USE DEF IInv, outside, environment, Advance, Opening, Hosting, Reading, Over
<1>1. CASE Bind
  <2>1. CASE Refuse("Bind")
    BY <1>1, <2>1, PlainRefuseIInv DEF Bind, Plain
  <2>2. CASE ~Refuse("Bind")
    <3>1. /\ stage = "bind" /\ stage' = "serving"
          /\ UNCHANGED <<launch, why, files, options, answer, got, reported, stop>>
      BY <1>1, <2>2 DEF Bind
    <3>2. OptionsInv'
      BY <3>1 DEF OptionsInv, Discovered, IsClient
    <3>3. MaterialInv' /\ ReportInv'
      BY <3>1 DEF MaterialInv, Roots, Chained, Permitted, Keyed, ReportInv, IsService
    <3> QED BY <3>1, <3>2, <3>3, AdvanceIInv DEF TypeOK
  <2> QED BY <2>1, <2>2
<1>2. CASE StopControl \/ PassOn \/ Signal
  <2>1. UNCHANGED <<launch, files, stage, options, answer, got, why, reported>>
    BY <1>2 DEF StopControl, PassOn, Signal
  <2>2. TypeOK'
    BY <1>2, <2>1 DEF TypeOK, StopControl, PassOn, Signal
  <2>3. OptionsInv' /\ MaterialInv' /\ RefusalInv'
    <3>1. OptionsInv'
      BY <2>1 DEF OptionsInv, IsClient
    <3>2. MaterialInv'
      BY <2>1 DEF MaterialInv
    <3>3. RefusalInv'
      BY <2>1, RefusalKept DEF RefusalInv
    <3> QED BY <3>1, <3>2, <3>3
  <2>4. ReportInv'
    BY <1>2, <2>1 DEF ReportInv, IsService, StopControl, PassOn, Signal
  <2> QED BY <2>2, <2>3, <2>4
<1>3. CASE Drained
  <2>1. /\ stage = "serving" /\ stage' = "ended" /\ reported' = "stopped"
        /\ UNCHANGED <<launch, why, files, options, answer, got, stop>>
    BY <1>3 DEF Drained
  <2>2. TypeOK'
    BY <2>1 DEF TypeOK
  <2>3. OptionsInv' /\ MaterialInv' /\ ReportInv'
    BY <2>1 DEF OptionsInv, Discovered, IsClient, MaterialInv, Roots, Chained, Permitted, Keyed,
                ReportInv, IsService
  <2> QED BY <2>1, <2>2, <2>3, AdvanceRefusal
<1>4. CASE MonitorFails
  BY <1>4, PlainRefuseIInv DEF MonitorFails, Plain
<1> QED BY <1>1, <1>2, <1>3, <1>4

\* A rollover replaces sound files by sound files: what was found right stays
\* right, and what was wrong was not theirs.
LEMMA RolloverIInv ==
  ASSUME IInv, Rollover
  PROVE  IInv'
<1> USE DEF IInv, outside
<1>1. UNCHANGED <<launch, stage, options, answer, got, why, reported, stop>>
  BY DEF Rollover
<1>2. \A s \in Sections : Pem(<<s>>) \in Files
  BY DEF Pem, Files
<1>3. \A s \in Keys : /\ Pem(<<s>>).readable /\ Pem(<<s>>).private
                      /\ Occurs(Pem(<<s>>), Keys) = {1} /\ Occurs(Pem(<<s>>), {Broken}) = {}
  BY DEF Pem, Occurs, Keys, Broken
<1>4. \A s \in Parsable : /\ Pem(<<s>>).readable
                          /\ Occurs(Pem(<<s>>), Certificates) # {}
                          /\ Occurs(Pem(<<s>>), {Broken}) = {}
  BY DEF Pem, Occurs, Certificates, Parsable, Broken
<1>5. "key1" \in Keys /\ "key2" \in Keys /\ "cert1" \in Parsable /\ "cert2" \in Parsable
        /\ Keys \cup Parsable \subseteq Sections
  BY DEF Keys, Parsable, Sections, Certificates
<1>6. files \in [ca : Files, chain : Files, key : Files]
  BY DEF TypeOK
<1>7. CASE files'.chain # files.chain
  <2>1. /\ files.chain = Pem(<<"cert1">>) /\ files'.chain = Pem(<<"cert2">>)
        /\ files'.ca = files.ca /\ files'.key = files.key
        /\ files' \in [ca : Files, chain : Files, key : Files]
    BY <1>2, <1>5, <1>6, <1>7 DEF Rollover
  <2>2. TypeOK'
    BY <1>1, <2>1 DEF TypeOK
  <2>3. OptionsInv' /\ ReportInv'
    BY <1>1 DEF OptionsInv, ReportInv, IsService, IsClient
  <2>4. MaterialInv'
    BY <1>1, <2>1 DEF MaterialInv
  <2>5. RefusalInv'
    <3>1. \A f \in {"ca", "chain", "key"} : f # "chain" => files'[f] = files[f]
      BY <2>1
    <3>2. /\ files.chain.readable /\ Occurs(files.chain, Certificates) # {}
          /\ Occurs(files.chain, {Broken}) = {}
      BY <1>4, <1>5, <2>1
    <3>3. why = "Read" => \E f \in {"ca", "chain", "key"} : ~files'[f].readable
      BY <3>1, <3>2 DEF RefusalInv, RefusalTrue
    <3>4. why = "CertificateParse" => \E f \in {"ca", "chain"} : Occurs(files'[f], {Broken}) # {}
      BY <3>1, <3>2 DEF RefusalInv, RefusalTrue
    <3>5. why = "EmptyCertificateChain" =>
            \E f \in {"ca", "chain"} : Occurs(files'[f], Certificates) = {}
      BY <3>1, <3>2 DEF RefusalInv, RefusalTrue
    <3> QED BY <1>1, <2>1, <3>3, <3>4, <3>5 DEF RefusalInv, RefusalTrue, IsClient
  <2> QED BY <2>2, <2>3, <2>4, <2>5
<1>8. CASE files'.chain = files.chain
  <2>1. /\ files.key = Pem(<<"key1">>) /\ files'.key = Pem(<<"key2">>)
        /\ files'.ca = files.ca
        /\ files' \in [ca : Files, chain : Files, key : Files]
    <3>1. Pem(<<"cert1">>) # Pem(<<"cert2">>)
      BY DEF Pem
    <3> QED BY <1>2, <1>5, <1>6, <1>8, <3>1 DEF Rollover
  <2>2. TypeOK'
    BY <1>1, <2>1 DEF TypeOK
  <2>3. OptionsInv' /\ ReportInv'
    BY <1>1 DEF OptionsInv, ReportInv, IsService, IsClient
  <2>4. MaterialInv'
    BY <1>1, <1>3, <1>5, <2>1 DEF MaterialInv
  <2>5. RefusalInv'
    <3>1. \A f \in {"ca", "chain", "key"} : f # "key" => files'[f] = files[f]
      BY <1>8, <2>1
    <3>2. /\ files.key.readable /\ files.key.private
          /\ Occurs(files.key, Keys) = {1} /\ Occurs(files.key, {Broken}) = {}
      BY <1>3, <1>5, <2>1
    <3>3. why = "Read" => \E f \in {"ca", "chain", "key"} : ~files'[f].readable
      BY <3>1, <3>2 DEF RefusalInv, RefusalTrue
    <3>4. why = "CertificateParse" => \E f \in {"ca", "chain"} : Occurs(files'[f], {Broken}) # {}
      BY <3>1 DEF RefusalInv, RefusalTrue
    <3>5. why = "EmptyCertificateChain" =>
            \E f \in {"ca", "chain"} : Occurs(files'[f], Certificates) = {}
      BY <3>1 DEF RefusalInv, RefusalTrue
    <3> QED BY <1>1, <2>1, <3>2, <3>3, <3>4, <3>5 DEF RefusalInv, RefusalTrue, IsClient
  <2> QED BY <2>2, <2>3, <2>4, <2>5
<1> QED BY <1>7, <1>8

LEMMA NextIInv ==
  ASSUME IInv, [Next]_vars
  PROVE  IInv'
<1>1. CASE UNCHANGED vars
  <2>1. UNCHANGED <<launch, files, stage, options, answer, got, why, reported, stop>>
    BY <1>1 DEF vars
  <2>2. TypeOK'
    BY <2>1 DEF IInv, TypeOK
  <2>3. OptionsInv' /\ ReportInv'
    BY <2>1 DEF IInv, OptionsInv, ReportInv, IsClient, IsService
  <2>4. MaterialInv'
    BY <2>1 DEF IInv, MaterialInv
  <2>5. RefusalInv'
    BY <2>1, RefusalKept DEF IInv, RefusalInv
  <2> QED BY <2>2, <2>3, <2>4, <2>5 DEF IInv
<1> QED BY <1>1, OpeningIInv, ServiceIInv, DiscoveryIInv, ReadingIInv, ServingIInv, RolloverIInv
        DEF Next, Rest

LEMMA SpecIInv == Spec => []IInv
BY InitIInv, NextIInv, PTL DEF Spec

\* Every variable stays in its type, from the command line to the end
\* (main.rs:192-268, windows_service.rs:36-106).
THEOREM ProcessTypeOK == Spec => []TypeOK
BY SpecIInv, PTL DEF IInv

\* Who serves has valid options, roots to check its peers with and the one key
\* that belongs to its certificate, and listens where it was told to
\* (lib.rs:56-171, tls.rs:66-157, main.rs:174-176).
THEOREM ProcessServingIsSound == Spec => []ServingIsSound
<1>1. IInv => ServingIsSound
  <2> SUFFICES ASSUME IInv, stage = "serving"
               PROVE  ServingIsSound
    BY DEF ServingIsSound
  <2>1. launch.limit > 0 /\ launch.paths = "given"
    <3>1. launch.limit # 0 /\ launch.paths = "given"
      BY DEF IInv, OptionsInv, Opening, Over
    <3>2. launch.limit \in {0, 1}
      BY ProcessAssumption DEF IInv, TypeOK, LaunchTypes
    <3> QED BY <3>1, <3>2
  <2>2. IF IsClient THEN options.listen = "socket"
        ELSE IF launch.tailscale THEN answer = <<options.listen>>
        ELSE options.listen = "fixed"
    BY DEF IInv, OptionsInv, Opening, Over, Discovered
  <2>3. /\ got.ca # Unread
        /\ launch.unix => files.key.private
        /\ \A i, j \in Occurs(files.key, Keys) : i = j
        /\ Paired(got.chain, got.key)
    BY DEF IInv, MaterialInv, Roots, Chained, Permitted, Keyed
  <2>4. \E n \in 1..2 : Leaf(got.chain) = <<"cert1", "cert2">>[n] /\ got.key = <<"key1", "key2">>[n]
    BY <2>3 DEF Paired
  <2> QED BY <2>1, <2>2, <2>3, <2>4 DEF ServingIsSound
<1> QED BY <1>1, SpecIInv, PTL

\* An error names something that is true of the options or the files, for files
\* of any length (tls.rs:66-192).
THEOREM ProcessRefusalTrue == Spec => []RefusalTrue
BY SpecIInv, PTL DEF IInv, RefusalInv

-----------------------------------------------------------------------------
(***************************************************************************)
(* A service is a BridgeService: every step is one of its steps or hidden. *)
(***************************************************************************)

USE DEF Opening, Hosting, Reading, Over

\* An early return ends a start, hangs it, or fails or ends a service that is
\* reported Running.
LEMMA RefuseStep ==
  ASSUME IInv, IsService, NEW reason, Refuse(reason),
         stage \in Opening \cup Hosting \cup Reading
  PROVE  Service!Next
<1>1. UNCHANGED <<launch, got, stop>> /\ IsService'
  BY DEF Refuse, IsService
<1>2. CASE stage \in {"launched", "options", "dispatch"}
  <2>1. ServiceState = "starting" /\ ServiceState' = "stopped"
    BY <1>1, <1>2 DEF IInv, ReportInv, Refuse, Hangs, ServiceState
  <2> QED BY <1>1, <2>1 DEF Service!Next, Service!StartFails, Service!Move
<1>3. CASE stage \in Hosting \ {"dispatch"}
  <2>1. ServiceState = "starting" /\ ServiceState' = "stuck"
    BY <1>1, <1>3 DEF IInv, ReportInv, Refuse, Hangs, ServiceState
  <2> QED BY <1>1, <2>1 DEF Service!Next, Service!StartHangs, Service!Move
<1>4. CASE stage \in Reading
  <2>1. ServiceState \in {"running", "binding", "stopping"} /\ ServiceState' = "stopped"
    BY <1>1, <1>4 DEF IInv, ReportInv, Refuse, Hangs, ServiceState
  <2> QED BY <1>1, <2>1 DEF Service!Next, Service!Fails, Service!Stopped, Service!Move
<1> QED BY <1>2, <1>3, <1>4

\* Going on changes nothing that is seen, unless it is to "serving".
LEMMA QuietStep ==
  ASSUME IInv, IsService, UNCHANGED <<launch, reported, stop>>, got'.chain = got.chain,
         stage # "serving", stage' # "serving", stage # "left", stage' # "left"
  PROVE  UNCHANGED Service!vars
BY DEF Service!vars, ServiceState, IsService

LEMMA StartStep ==
  ASSUME IInv, IsService,
         StartLog \/ BuildOptions \/ Dispatch \/ Register \/ BuildRuntime
           \/ CliFails \/ CliTimesOut \/ DefaultCliMissing \/ CliAnswers
  PROVE  [Service!Next]_(Service!vars)
<1>1. CASE \E reason : Refuse(reason)
  <2>1. stage \in Opening \cup Hosting
    BY DEF StartLog, BuildOptions, Dispatch, Register, BuildRuntime, Host,
           CliFails, CliTimesOut, DefaultCliMissing, CliAnswers, Discovering
  <2> QED BY <1>1, <2>1, RefuseStep
<1>2. CASE ~ \E reason : Refuse(reason)
  <2>1. /\ UNCHANGED <<launch, reported, stop, got>>
        /\ stage \notin {"serving", "left"}
        /\ stage' \notin {"serving", "left"}
    <3>1. CASE StartLog \/ BuildOptions
      BY <1>2, <3>1 DEF StartLog, BuildOptions, Advance, AfterOptions, outside
    <3>2. CASE Dispatch \/ Register \/ BuildRuntime
      BY <1>2, <3>2 DEF Dispatch, Register, BuildRuntime, Host, Advance, outside
    <3>3. CASE CliFails \/ CliTimesOut \/ DefaultCliMissing
      BY <1>2, <3>3 DEF CliFails, CliTimesOut, DefaultCliMissing, Advance, outside
    <3>4. CASE CliAnswers
      BY <1>2, <3>4 DEF CliAnswers, Discovering, Advance, outside
    <3> QED BY <3>1, <3>2, <3>3, <3>4
  <2> QED BY <2>1, QuietStep
<1> QED BY <1>1, <1>2

\* Reading takes a service from Running to its certificate and its listener.
LEMMA RunningStep ==
  ASSUME IInv, IsService,
         ReportRunning \/ LoadRoots \/ LoadCertificates \/ CheckPermissions
           \/ LoadPrivateKey \/ Pair \/ ParseName \/ Bind
  PROVE  [Service!Next]_(Service!vars)
<1>1. CASE \E reason : Refuse(reason)
  <2>1. stage \in Hosting \cup Reading
    BY DEF ReportRunning, LoadRoots, LoadCertificates, CheckPermissions, LoadPrivateKey,
           Pair, ParseName, Bind, Load
  <2> QED BY <1>1, <2>1, RefuseStep
<1>2. CASE ~ \E reason : Refuse(reason)
  <2>1. CASE ReportRunning
    <3>1. /\ stage = "report" /\ stage' = "roots" /\ reported' = "running"
          /\ UNCHANGED <<launch, got, stop>>
      BY <1>2, <2>1 DEF ReportRunning, Advance
    <3>2. ServiceState = "starting" /\ ServiceState' = "running"
      BY <3>1 DEF IInv, ReportInv, MaterialInv, Chained, Roots, ServiceState, IsService
    <3> QED BY <3>1, <3>2 DEF Service!Next, Service!ReportRunning, Service!Move
  <2>2. CASE LoadCertificates
    <3>1. /\ stage = "chain" /\ stage' = "permissions"
          /\ got' = [got EXCEPT !.chain = CertificatesOf(files.chain)]
          /\ CertificateError(files.chain) = "none"
          /\ UNCHANGED <<launch, reported, stop>>
      BY <1>2, <2>2 DEF LoadCertificates, Load, Advance, outside
    <3>2. got'.chain = CertificatesOf(files.chain) /\ CertificatesOf(files.chain) # Unread
      BY <3>1, CertificateErrorTrue DEF IInv, TypeOK, MaterialInv
    <3>3. /\ ServiceState \in {"running", "stopping"}
          /\ ServiceState' = IF ServiceState = "running" THEN "binding" ELSE ServiceState
      BY <3>1, <3>2 DEF IInv, ReportInv, MaterialInv, Chained, Roots, ServiceState, IsService
    <3> QED BY <3>2, <3>3 DEF Service!Next, Service!ReadCertificate
  <2>3. CASE Bind
    <3>1. /\ stage = "bind" /\ stage' = "serving"
          /\ UNCHANGED <<launch, got, reported, stop>>
      BY <1>2, <2>3 DEF Bind, Advance, outside
    <3>2. \/ ServiceState = "binding" /\ ServiceState' = "serving"
          \/ ServiceState' = ServiceState
      BY <3>1 DEF IInv, ReportInv, MaterialInv, Chained, Roots, ServiceState, IsService
    <3> QED BY <3>1, <3>2 DEF Service!Next, Service!Serve, Service!Move, Service!vars
  <2>4. CASE LoadRoots \/ CheckPermissions \/ LoadPrivateKey \/ Pair \/ ParseName
    <3>1. /\ stage \in Reading /\ stage' \in Reading
          /\ UNCHANGED <<launch, reported, stop>>
      BY <1>2, <2>4 DEF LoadRoots, CheckPermissions, LoadPrivateKey, Pair, ParseName, Load,
                        Advance, outside
    <3>2. got'.chain = got.chain
      BY <1>2, <2>4 DEF LoadRoots, CheckPermissions, LoadPrivateKey, Pair, ParseName, Load,
                        IInv, MaterialInv
    <3> QED BY <3>1, <3>2, QuietStep
  <2> QED BY <2>1, <2>2, <2>3, <2>4
<1> QED BY <1>1, <1>2

\* A stop counts once, and the end is reported.
LEMMA StopStep ==
  ASSUME IInv, IsService, StopControl \/ PassOn \/ Drained
  PROVE  [Service!Next]_(Service!vars)
<1>1. UNCHANGED <<launch, got>> /\ IsService'
  BY DEF StopControl, PassOn, Drained, Advance, environment, IsService
<1>2. CASE StopControl
  <2>1. /\ reported = "running" /\ UNCHANGED <<stage, reported>> /\ stop' # "none"
        /\ stop # "none" => stop' = stop
    BY <1>2 DEF StopControl
  <2>2. \/ ServiceState \in {"running", "binding", "serving"} /\ ServiceState' = "stopping"
        \/ ServiceState' = ServiceState
    BY <1>1, <2>1 DEF ServiceState
  <2> QED BY <1>1, <2>2 DEF Service!Next, Service!StopControl, Service!Move, Service!vars
<1>3. CASE PassOn
  <2>1. UNCHANGED <<stage, reported>> /\ stop # "none" /\ stop' # "none"
    BY <1>3 DEF PassOn
  <2> QED BY <1>1, <2>1 DEF ServiceState, Service!vars
<1>4. CASE Drained
  <2>1. stage = "serving" /\ stop = "passed" /\ reported' = "stopped"
    BY <1>4 DEF Drained
  <2>2. ServiceState = "stopping" /\ ServiceState' = "stopped"
    BY <1>1, <2>1 DEF ServiceState, IInv, ReportInv
  <2> QED BY <1>1, <2>2 DEF Service!Next, Service!Stopped, Service!Move
<1> QED BY <1>2, <1>3, <1>4

\* For the control manager and for those who wait for it, the process is a
\* BridgeService: it takes a stop only while it is reported Running, and hangs
\* only before that (windows_service.rs:69-106).
THEOREM ProcessServiceSpec == Spec => ServiceSpec
<1>1. ASSUME IInv, [Next]_vars
      PROVE  [IsService => [Service!Next]_(Service!vars)]_vars
  <2> SUFFICES ASSUME Next, IsService, ~ UNCHANGED vars
               PROVE  [Service!Next]_(Service!vars)
    BY <1>1
  <2>1. ~Signal /\ ~MonitorFails
    BY <1>1 DEF Signal, MonitorFails, IsClient, IsService
  <2>2. CASE Rollover
    BY <2>2 DEF Rollover, outside, Service!vars, ServiceState, IsService
  <2> QED BY <1>1, <2>1, <2>2, StartStep, RunningStep, StopStep DEF Next, Rest
<1> QED BY <1>1, SpecIInv, PTL DEF Spec, ServiceSpec
=============================================================================
