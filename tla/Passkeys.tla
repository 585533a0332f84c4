------------------------------ MODULE Passkeys ------------------------------
(***************************************************************************)
(* Which site a passkey belongs to (passkey.rs, and the two lanes of the   *)
(* agent's ceremonies in session.rs): a relying-party id is checked        *)
(* against the origin of a page, or, on the CTAP lane where there is none, *)
(* for being a name somebody can own; a credential is minted under it and  *)
(* signs wherever the same check lets it.                                  *)
(*                                                                         *)
(* A domain is the sequence of its labels, the last one of the name first: *)
(* "a.co.uk" is <<"uk", "co", "a">>.  Keys and signatures are symbolic.    *)
(***************************************************************************)
EXTENDS Integers, Sequences, FiniteSetsExt, SequencesExt

CONSTANTS
    Domain,      \* the names of hosts and relying parties
    Rules,       \* the public suffix list: sequences of labels, "*" for any
    Offers       \* lists of algorithms relying parties send

VARIABLES
    cred,        \* the credential in the vault, or NoCred
    minted,      \* history: the host it was minted for
    signed       \* the last assertion, or None

vars == <<cred, minted, signed>>

Ip == <<>>
NoCred == [rp |-> Ip]
None == [host |-> Ip]
Origin == [scheme : {"https", "http"}, host : Domain \cup {Ip}, userinfo : BOOLEAN]

\* Whether the name of a domain ends with "." and that of another.
EndsWith(d, suffix) == IsStrictPrefix(suffix, d)

----------------------------------------------------------------------------
(* The public suffix list (the publicsuffix crate): the longest rule that  *)
(* fits decides, and every domain has at least the rule "*".               *)

Fits(rule, d) == Len(rule) <= Len(d) /\ \A i \in DOMAIN rule : rule[i] \in {"*", d[i]}
SuffixLength(d) == Max({1} \cup {Len(r) : r \in {q \in Rules : Fits(q, d)}})
HasRegistrable(d) == Len(d) > SuffixLength(d)
EffectiveTldPlusOne(d) == SubSeq(d, 1, SuffixLength(d) + 1)

----------------------------------------------------------------------------
(* The rules.                                                              *)

\* origin_host: Ip stands for None, and for the hosts that are refused.
OriginHost(o) ==
    IF ~o.userinfo /\ o.host # Ip /\ (o.scheme = "https" \/ o.host[1] = "localhost")
    THEN o.host ELSE Ip

PublicSuffixOf(host) ==
    IF HasRegistrable(host) THEN Front(EffectiveTldPlusOne(host)) ELSE host

\* Mutant: the suffix may reach into the host's public suffix.
IsRegistrableDomainSuffixOfOrEqualToLoose(suffix, host) ==
    /\ host # Ip
    /\ suffix = host \/ (EndsWith(host, suffix) /\ HasRegistrable(suffix))

\* is_registrable_domain_suffix_of_or_equal_to, in its five steps.
IsRegistrableDomainSuffixOfOrEqualTo(suffix, host) ==
    /\ suffix # Ip /\ host # Ip
    /\ \/ suffix = host
       \/ /\ EndsWith(host, suffix)
          /\ HasRegistrable(suffix)
          /\ PublicSuffixOf(host) # suffix
          /\ ~EndsWith(PublicSuffixOf(host), suffix)

RpIdIsValidForOrigin(rp, o) == IsRegistrableDomainSuffixOfOrEqualTo(rp, OriginHost(o))

RpIdIsRegistrable(rp) == rp # Ip /\ (rp[1] = "localhost" \/ HasRegistrable(rp))

----------------------------------------------------------------------------
(* Credentials.                                                            *)

Supported == {"ES256", "Ed25519"}

\* choose_algorithm; the empty list means ES256.
ChooseAlgorithm(offer) ==
    LET at == {i \in DOMAIN offer : offer[i] \in Supported} IN
    IF offer = <<>> THEN "ES256" ELSE IF at = {} THEN "none" ELSE offer[Min(at)]

BaseFlags(verified, backed) ==
    {"UP", "BE"} \cup {f \in {"BS"} : backed} \cup {f \in {"UV"} : verified}

\* The key is stored in the shape its algorithm calls for.
StoredKey(algorithm) == IF algorithm = "Ed25519" THEN "seed" ELSE "pkcs8"

\* Credential::create, approved for host (the relying party itself on the CTAP
\* lane, where no host is known).
Mint(rp, host, offer, prf) ==
    /\ cred = NoCred
    /\ ChooseAlgorithm(offer) # "none"
    /\ cred' = [rp |-> rp, algorithm |-> ChooseAlgorithm(offer),
                key |-> StoredKey(ChooseAlgorithm(offer)), prf |-> prf,
                flags |-> BaseFlags(TRUE, FALSE) \cup {"AT"}]
    /\ minted' = host
    /\ UNCHANGED signed

\* The browser's lane pins ES256: it sends no list.
CreateForPage(rp, o, prf) == RpIdIsValidForOrigin(rp, o) /\ Mint(rp, OriginHost(o), <<>>, prf)
CreateForKey(rp, offer, prf) == RpIdIsRegistrable(rp) /\ Mint(rp, rp, offer, prf)

\* from_stored and sign_with: a key of another shape than its algorithm's is refused.
Signs == cred.key = StoredKey(cred.algorithm)

\* assert_prehashed and prf_evaluate.
Sign(host, salt, backed) ==
    /\ Signs
    /\ signed' = [host |-> host, flags |-> BaseFlags(TRUE, backed),
                  algorithm |-> cred.algorithm, prf |-> salt /\ cred.prf]
    /\ UNCHANGED <<cred, minted>>

\* Credential::assert.  The choices of a ceremony are the credentials of its
\* relying-party id, so the check when it begins and the one before the signature
\* are of one id.
AssertForPage(o, salt, backed) ==
    /\ cred # NoCred
    /\ RpIdIsValidForOrigin(cred.rp, o)
    /\ Sign(OriginHost(o), salt, backed)

AssertForKey(salt, backed) ==
    /\ cred # NoCred
    /\ RpIdIsRegistrable(cred.rp)
    /\ Sign(cred.rp, salt, backed)

Init == cred = NoCred /\ minted = Ip /\ signed = None

Next ==
    \/ \E rp \in Domain, prf \in BOOLEAN :
        \/ \E o \in Origin : CreateForPage(rp, o, prf)
        \/ \E offer \in Offers : CreateForKey(rp, offer, prf)
    \/ \E salt, backed \in BOOLEAN :
        (\E o \in Origin : AssertForPage(o, salt, backed)) \/ AssertForKey(salt, backed)

----------------------------------------------------------------------------
\* Who owns a host: the registrable domain above it, or the host alone.
OwnerOf(host) == IF HasRegistrable(host) THEN EffectiveTldPlusOne(host) ELSE host

\* A passkey minted for one site signs for no other: the host it signs for and the
\* host it was minted for have one owner, whichever lane minted it and whichever
\* lane signs, and whatever the public suffix list says of the names above them.
OneOwner ==
    signed # None => OwnerOf(signed.host) = OwnerOf(minted)

============================================================================
