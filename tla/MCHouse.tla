------------------------------ MODULE MCHouse ------------------------------
(* Seven components that share no state in one run: the heat pump over an      *)
(* hour, the door, the stove, the house's meter, the store of measurements,    *)
(* the live feed and the watch.  A behaviour is one of the first, or of the    *)
(* second, and so on, and the others rest in their initial state, as no        *)
(* property relates two of them.                                               *)
EXTENDS HeatPumpHistory, DoorAccess, StoveControl, ShellyMeter, MeasurementStore, LiveFeed, WatchNotify

VARIABLE part
pumpVars == <<vars, historyVars>>
houseVars == <<part, pumpVars, doorVars, stoveVars, meterVars, storeVars, feedVars, watchVars>>

HouseInit ==
  /\ part \in {"heat pump", "door", "stove", "meter", "store", "feed", "watch"}
  /\ HInit /\ DoorInit /\ StoveInit /\ MeterInit /\ StoreInit /\ FeedInit /\ WatchInit

HouseNext ==
  \/ part = "heat pump" /\ (HControlTick \/ HObserve)
     /\ UNCHANGED <<part, doorVars, stoveVars, meterVars, storeVars, feedVars, watchVars>>
  \/ part = "door" /\ DoorNext
     /\ UNCHANGED <<part, pumpVars, stoveVars, meterVars, storeVars, feedVars, watchVars>>
  \/ part = "stove" /\ StoveNext
     /\ UNCHANGED <<part, pumpVars, doorVars, meterVars, storeVars, feedVars, watchVars>>
  \/ part = "meter" /\ MeterNext
     /\ UNCHANGED <<part, pumpVars, doorVars, stoveVars, storeVars, feedVars, watchVars>>
  \/ part = "store" /\ StoreNext
     /\ UNCHANGED <<part, pumpVars, doorVars, stoveVars, meterVars, feedVars, watchVars>>
  \/ part = "feed" /\ FeedNext
     /\ UNCHANGED <<part, pumpVars, doorVars, stoveVars, meterVars, storeVars, watchVars>>
  \/ part = "watch" /\ WatchNext
     /\ UNCHANGED <<part, pumpVars, doorVars, stoveVars, meterVars, storeVars, feedVars>>

HouseSpec == HouseInit /\ [][HouseNext]_houseVars

=============================================================================
