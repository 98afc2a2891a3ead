SPECIFICATION FairSpec
CONSTANTS
  Threads = {t1, t2}
  Host = Host
  Nobody = Nobody
  yt = yt
  system = system
  friend = friend
  Apps = {yt, system}
  NoApp = NoApp
  YouTubeApps = {yt}
  SystemApps = {system}
  Origins = {friend, EmptyOrigin}
  NoOrigin = NoOrigin
  EmptyOrigin = EmptyOrigin
  CorsArgs <- MCNoCorsArgs
  NoList = NoList
  MaxRequests = 1
  Arrivals <- MCArrivals
  Garbage = Garbage
  NoRequest = NoRequest
CHECK_DEADLOCK FALSE
PROPERTY
  RequestsAnswered
