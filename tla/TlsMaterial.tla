----------------------------- MODULE TlsMaterial -----------------------------
(***************************************************************************)
(* The PEM files of a bridge and how they are read: load_certificates,     *)
(* root_store, load_private_key, and the pairing of certificate and key.   *)
(* A file is a sequence of sections.  The readers skip what they do not    *)
(* look for, but a section that cannot be decoded ends them.               *)
(***************************************************************************)
EXTENDS Naturals, Sequences

Parsable == {"cert1", "cert2"}           \* certificates
Certificates == Parsable \cup {"junk"}   \* certificate sections: junk is no certificate
Keys == {"key1", "key2"}
Broken == "broken"                       \* a section that is not base64
Sections == Certificates \cup Keys \cup {Broken}

Pem(sections) == [readable |-> TRUE, private |-> TRUE, sections |-> sections]
Missing == [readable |-> FALSE, private |-> TRUE, sections |-> <<>>]

Files == [readable : BOOLEAN, private : BOOLEAN, sections : Seq(Sections)]

\* Where a file has sections of some kinds, the first of them, and what a
\* reader that looks for them gets: those sections, at their places.
Occurs(file, kinds) == {i \in DOMAIN file.sections : file.sections[i] \in kinds}
First(places) == CHOOSE i \in places : \A j \in places : i <= j
Only(file, kinds) == [i \in Occurs(file, kinds) |-> file.sections[i]]

Unread == [i \in {} |-> Broken]

-----------------------------------------------------------------------------

\* load_certificates: the chain, or why there is none.
CertificatesOf(file) == Only(file, Certificates)

CertificateError(file) ==
  IF ~file.readable THEN "Read"
  ELSE IF Occurs(file, {Broken}) # {} THEN "CertificateParse"
  ELSE IF Occurs(file, Certificates) = {} THEN "EmptyCertificateChain"
  ELSE "none"

\* root_store: what cannot be parsed is left out, but something must remain.
RootError(file) ==
  IF CertificateError(file) # "none" THEN CertificateError(file)
  ELSE IF Occurs(file, Parsable) = {} THEN "EmptyRootStore" ELSE "none"

\* rustls_pemfile::private_key stops at the first key, and at what it cannot
\* decode; load_private_key calls it again for what is behind the first.
KeyScan(file) == Occurs(file, Keys \cup {Broken})

FirstKey(file) == file.sections[First(KeyScan(file))]

Behind(file) == KeyScan(file) \ {First(KeyScan(file))}

\* Mutant: the second look opens the file again.
KeyErrorReopened(file) ==
  IF ~file.readable THEN "Read"
  ELSE IF KeyScan(file) = {} THEN "MissingPrivateKey"
  ELSE IF FirstKey(file) = Broken THEN "PrivateKeyParse"
  ELSE "MultiplePrivateKeys"

KeyError(file) ==
  IF ~file.readable THEN "Read"
  ELSE IF KeyScan(file) = {} THEN "MissingPrivateKey"
  ELSE IF FirstKey(file) = Broken THEN "PrivateKeyParse"
  ELSE IF Behind(file) = {} THEN "none"
  ELSE IF file.sections[First(Behind(file))] = Broken THEN "PrivateKeyParse"
  ELSE "MultiplePrivateKeys"

\* with_single_cert and with_client_auth_cert: the key must be that of the
\* first certificate, which must therefore be one.
Leaf(chain) == chain[First(DOMAIN chain)]
Paired(chain, key) == <<Leaf(chain), key>> \in {<<"cert1", "key1">>, <<"cert2", "key2">>}
=============================================================================
