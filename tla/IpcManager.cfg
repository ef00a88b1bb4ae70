SPECIFICATION FairSpec
CONSTANTS
  Off = Off
  Nobody = Nobody
  NoPayload = NoPayload
  Port <- MCPort
  Ipcs <- MCIpcs
  Filters = {everything}
  Positions = {corner}
  MaxQueue = 1
INVARIANT TypeOK
INVARIANT EndpointIsServed
PROPERTY SettingsTakeEffect
PROPERTY ServedDespiteConflict
