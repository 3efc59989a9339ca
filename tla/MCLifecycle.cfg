SPECIFICATION Spec
INVARIANTS TypeOK ClickHasContext UpServesSatellites UpReports DownIsQuiet
