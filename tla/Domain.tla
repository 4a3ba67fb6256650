--------------------------------- MODULE Domain ---------------------------------
(***************************************************************************)
(* The words of internal/domain/listing.go that several parts of the       *)
(* program check against.                                                  *)
(***************************************************************************)

(* OpportunityType.Valid.                                                  *)
OpportunityTypes ==
    {"staj", "uzun_donem_staj", "part_time_ogrenci", "yeni_mezun", "bootcamp",
     "hackathon", "yarisma", "burs", "universite_sirket_programi",
     "teknik_etkinlik", "egitim", "diger"}

(* EligibilityStatus.                                                      *)
Eligibilities == {"uygun", "kismen_uygun", "uygun_degil", "karar_bekliyor"}
================================================================================
