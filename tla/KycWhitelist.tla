---------------------------- MODULE KycWhitelist ----------------------------
(***************************************************************************)
(* The KYC whitelist contract (kyc-whitelist/src/lib.rs): services that an *)
(* administrator sets up verify accounts with providers, and anybody asks  *)
(* whether an account is whitelisted.  A verification type with its level  *)
(* is one value here, a check.                                             *)
(***************************************************************************)
EXTENDS Integers, Sequences, SequencesExt

CONSTANTS
  Nil,            \* the absent optional value (a model value)
  Verifiable,     \* the accounts that services verify
  Providers,      \* the provider details the administrator enters
  Profiles,       \* the service profiles the administrator enters
  Expiries,       \* expiry dates of the documents
  MaxChanges,     \* bound on the changes ever made
  FirstProviders, FirstProfiles, FirstDefault  \* the Config it starts with

VARIABLES
  now,               \* env::block_timestamp()
  providers,         \* Config.providers
  service_profiles,  \* Config.service_profiles
  default_profile,   \* Config.default_profile
  whitelist,         \* the entries of each account, in order
  changes            \* how many changes were made, for MaxChanges

kyc_vars == <<providers, service_profiles, default_profile, whitelist,
              changes>>

ActivationType == {"Enabled", "NewChecksNotAllowed", "Disabled"}
Checked == {<<v.provider, v.check>> : v \in UNION {p.checks : p \in Profiles}}

Init ==
  /\ now = 0
  /\ providers = FirstProviders
  /\ service_profiles = FirstProfiles
  /\ default_profile = FirstDefault
  /\ whitelist = [a \in Verifiable |-> <<>>]
  /\ changes = 0

Changed == changes < MaxChanges /\ changes' = changes + 1

----------------------------------------------------------------------------
(* Looking things up.                                                      *)

Allows(enabled, read_only) ==
  IF read_only THEN enabled # "Disabled" ELSE enabled = "Enabled"

provider_found(name, read_only) ==
  \E i \in DOMAIN providers :
     providers[i].name = name /\ Allows(providers[i].enabled, read_only)

(* math_profile_params                                                     *)
Accepts(profile, provider, check, read_only) ==
  /\ provider_found(provider, read_only)
  /\ \E v \in profile.checks :
        /\ v.provider = provider /\ v.check = check
        /\ Allows(v.enabled, read_only)

(* position: the first that fits; 0 where the code finds none.             *)
ProviderIndex(name) == SelectInSeq(providers, LAMBDA p : p.name = name)
ProfileByName(name) == SelectInSeq(service_profiles, LAMBDA p : p.name = name)
ProfileByAccount(account) ==
  SelectInSeq(service_profiles, LAMBDA p : p.account = account)

find_whitelist_entry(a, provider, check) ==
  SelectInSeq(whitelist[a], LAMBDA e : e.provider = provider /\ e.check = check)

(* is_whitelisted(account, None), which panics without a default profile:  *)
(* the profile may be removed and stay the default.                        *)
Answerable == default_profile # Nil /\ ProfileByName(default_profile) # 0

is_whitelisted(a) ==
  LET profile == service_profiles[ProfileByName(default_profile)] IN
  \E i \in DOMAIN whitelist[a] :
     LET e == whitelist[a][i] IN
     /\ Accepts(profile, e.provider, e.check, TRUE)
     /\ e.expiry # Nil => now < e.expiry

----------------------------------------------------------------------------
(* The administrator.                                                      *)

validate_service_profile(p, is_new) ==
  \A v \in p.checks :
     /\ is_new => v.enabled # "Disabled"
     /\ provider_found(v.provider, TRUE)

create_service_profile(p) ==
  /\ Changed
  /\ validate_service_profile(p, TRUE)
  /\ ProfileByName(p.name) = 0 /\ ProfileByAccount(p.account) = 0
  /\ service_profiles' = Append(service_profiles, p)
  /\ UNCHANGED <<now, providers, default_profile, whitelist>>

update_service_profile_slip(i, p) ==
  /\ Changed
  /\ validate_service_profile(p, FALSE)
  /\ ProfileByName(p.name) \in {0, i}
  /\ service_profiles' = [service_profiles EXCEPT ![i] = p]
  /\ UNCHANGED <<now, providers, default_profile, whitelist>>

(* The profile is named by its name or by its account.                     *)
update_service_profile(i, p) ==
  /\ Changed
  /\ validate_service_profile(p, FALSE)
  /\ ProfileByAccount(p.account) \in {0, i}
  /\ ProfileByName(p.name) \in {0, i}
  /\ service_profiles' = [service_profiles EXCEPT ![i] = p]
  /\ UNCHANGED <<now, providers, default_profile, whitelist>>

remove_service_profile(i) ==
  /\ Changed
  /\ service_profiles' = RemoveAt(service_profiles, i)
  /\ UNCHANGED <<now, providers, default_profile, whitelist>>

create_provider(p) ==
  /\ Changed
  /\ p.enabled # "Disabled"
  /\ ProviderIndex(p.name) = 0
  /\ providers' = Append(providers, p)
  /\ UNCHANGED <<now, service_profiles, default_profile, whitelist>>

(* Nothing keeps the new name from being that of another provider.         *)
update_provider(name, p) ==
  /\ Changed
  /\ ProviderIndex(name) # 0
  /\ providers' = [providers EXCEPT ![ProviderIndex(name)] = p]
  /\ UNCHANGED <<now, service_profiles, default_profile, whitelist>>

remove_provider(name) ==
  /\ Changed
  /\ ProviderIndex(name) # 0
  /\ providers' = RemoveAt(providers, ProviderIndex(name))
  /\ UNCHANGED <<now, service_profiles, default_profile, whitelist>>

set_default_profile(name) ==
  /\ Changed
  /\ name # Nil => ProfileByName(name) # 0
  /\ default_profile' = name
  /\ UNCHANGED <<now, providers, service_profiles, whitelist>>

----------------------------------------------------------------------------
(* The services.                                                           *)

check_service_profile(service, provider, check) ==
  /\ ProfileByAccount(service) # 0
  /\ Accepts(service_profiles[ProfileByAccount(service)], provider, check,
             FALSE)

(* A new verification takes the place of the one before.                   *)
add_account(service, a, provider, check, expiry) ==
  LET index == find_whitelist_entry(a, provider, check)
      entry == [provider |-> provider, check |-> check, expiry |-> expiry]
  IN
  /\ Changed
  /\ expiry # Nil => expiry > now
  /\ check_service_profile(service, provider, check)
  /\ whitelist' = [whitelist EXCEPT
       ![a] = IF index # 0 THEN [@ EXCEPT ![index] = entry]
                           ELSE Append(@, entry)]
  /\ UNCHANGED <<now, providers, service_profiles, default_profile>>

remove_account(service, a, provider, check) ==
  LET index == find_whitelist_entry(a, provider, check) IN
  /\ Changed
  /\ check_service_profile(service, provider, check)
  /\ index # 0
  /\ whitelist' = [whitelist EXCEPT ![a] = RemoveAt(@, index)]
  /\ UNCHANGED <<now, providers, service_profiles, default_profile>>

----------------------------------------------------------------------------
ProviderNames == {p.name : p \in Providers}

KycNext ==
  \/ \E p \in Profiles :
        \/ create_service_profile(p)
        \/ \E i \in DOMAIN service_profiles : update_service_profile(i, p)
  \/ \E i \in DOMAIN service_profiles : remove_service_profile(i)
  \/ \E p \in Providers :
        \/ create_provider(p)
        \/ \E name \in ProviderNames : update_provider(name, p)
  \/ \E name \in ProviderNames : remove_provider(name)
  \/ \E name \in {p.name : p \in Profiles} \cup {Nil} :
        set_default_profile(name)
  \/ \E service \in {p.account : p \in Profiles}, a \in Verifiable,
        c \in Checked :
        \/ \E expiry \in Expiries : add_account(service, a, c[1], c[2], expiry)
        \/ remove_account(service, a, c[1], c[2])

----------------------------------------------------------------------------
(* A service and a name belong to one profile, and an account has one      *)
(* entry for each check of each provider, so that a service that takes a   *)
(* verification back leaves none of it.                                    *)
RecordedOnce ==
  /\ \A i, j \in DOMAIN service_profiles :
        \/ service_profiles[i].account = service_profiles[j].account
        \/ service_profiles[i].name = service_profiles[j].name
        => i = j
  /\ \A a \in Verifiable : \A i, j \in DOMAIN whitelist[a] :
        /\ whitelist[a][i].provider = whitelist[a][j].provider
        /\ whitelist[a][i].check = whitelist[a][j].check
        => i = j

============================================================================
